---------------------------- MODULE Spec2Model ----------------------------
(***************************************************************************)
(* A model of the ATLAS widget: the device-context probes of               *)
(* electron/device-context.ts, the submit-ticket IPC handler of the        *)
(* Electron main process and the ticket form of the renderer (src/main.ts).*)
(*                                                                         *)
(* Text is a sequence of tokens.  A token is one character ("1", ",",      *)
(* " ", "\n") or a keyword standing for the literal of the same spelling   *)
(* ("REG_SZ", "Version"), so that trimming, splitting, parseInt and the    *)
(* regular expressions of the source are computed on the text and not      *)
(* assumed.  A nullable value is a set: Null (no element) or Some(v).      *)
(***************************************************************************)
EXTENDS Integers, Sequences, FiniteSets, TLC

\* ------------------------------------------------------------------------
\* Values
\* ------------------------------------------------------------------------

Null == {}
Some(v) == {v}
IsNull(o) == o = {}
Val(o) == CHOOSE v \in o : TRUE

\* NaN, the result of a parseInt that found no digit.
NaN == {}
IsNaN(o) == o = {}

\* A child process, registry query or file read: it throws, or yields text.
Throws == [ok |-> FALSE, out |-> <<>>]
Ok(text) == [ok |-> TRUE, out |-> text]

\* ------------------------------------------------------------------------
\* JavaScript string functions, on token sequences
\* ------------------------------------------------------------------------

LineTerminators == {"\n", "\r"}
WhiteSpace == {" ", "\t", "\n", "\r"}
Digits == {"0", "1", "2", "3", "4", "5", "6", "7", "8", "9"}
HexDigits == Digits \cup {"a", "b", "c", "d", "e", "f", "A", "B", "C", "D", "E", "F"}

DigitVal(c) ==
    CASE c = "0" -> 0 [] c = "1" -> 1 [] c = "2" -> 2 [] c = "3" -> 3
      [] c = "4" -> 4 [] c = "5" -> 5 [] c = "6" -> 6 [] c = "7" -> 7
      [] c = "8" -> 8 [] c = "9" -> 9
      [] c \in {"a", "A"} -> 10 [] c \in {"b", "B"} -> 11
      [] c \in {"c", "C"} -> 12 [] c \in {"d", "D"} -> 13
      [] c \in {"e", "E"} -> 14 [] c \in {"f", "F"} -> 15

DigitChar(d) ==
    CASE d = 0 -> "0" [] d = 1 -> "1" [] d = 2 -> "2" [] d = 3 -> "3"
      [] d = 4 -> "4" [] d = 5 -> "5" [] d = 6 -> "6" [] d = 7 -> "7"
      [] d = 8 -> "8" [] d = 9 -> "9"

\* String.prototype.toUpperCase
UpperChar(c) ==
    CASE c = "a" -> "A" [] c = "b" -> "B" [] c = "c" -> "C"
      [] c = "d" -> "D" [] c = "e" -> "E" [] c = "f" -> "F"
      [] OTHER -> c

toUpperCase(s) == [i \in 1..Len(s) |-> UpperChar(s[i])]

RECURSIVE SkipLeft(_, _)
SkipLeft(s, i) ==
    IF i <= Len(s) /\ s[i] \in WhiteSpace THEN SkipLeft(s, i + 1) ELSE i

RECURSIVE SkipRight(_, _)
SkipRight(s, j) ==
    IF j >= 1 /\ s[j] \in WhiteSpace THEN SkipRight(s, j - 1) ELSE j

\* String.prototype.trim
trim(s) == SubSeq(s, SkipLeft(s, 1), SkipRight(s, Len(s)))

\* String.prototype.split(sep) for a one-token separator: always at least
\* one piece, the empty text gives one empty piece.
RECURSIVE splitFrom(_, _, _, _)
splitFrom(s, sep, i, cur) ==
    IF i > Len(s) THEN <<cur>>
    ELSE IF s[i] = sep THEN <<cur>> \o splitFrom(s, sep, i + 1, <<>>)
    ELSE splitFrom(s, sep, i + 1, Append(cur, s[i]))

split(s, sep) == splitFrom(s, sep, 1, <<>>)

\* String.prototype.split(/\s+/): every maximal run of white space is one
\* separator.
RECURSIVE splitWsFrom(_, _, _)
splitWsFrom(s, i, cur) ==
    IF i > Len(s) THEN <<cur>>
    ELSE IF s[i] \in WhiteSpace
         THEN <<cur>> \o splitWsFrom(s, SkipLeft(s, i), <<>>)
    ELSE splitWsFrom(s, i + 1, Append(cur, s[i]))

splitWs(s) == splitWsFrom(s, 1, <<>>)

\* Array.prototype.filter(l => l.trim()): keeps the lines that are not blank.
RECURSIVE filterNonBlank(_)
filterNonBlank(ls) ==
    IF ls = <<>> THEN <<>>
    ELSE IF trim(Head(ls)) # <<>> THEN <<Head(ls)>> \o filterNonBlank(Tail(ls))
    ELSE filterNonBlank(Tail(ls))

\* The value of a run of digits in the given radix.
RECURSIVE DigitsValue(_, _, _)
DigitsValue(s, radix, acc) ==
    IF s = <<>> THEN acc
    ELSE DigitsValue(Tail(s), radix, acc * radix + DigitVal(Head(s)))

RECURSIVE DigitRun(_, _, _)
DigitRun(s, i, class) ==
    IF i <= Len(s) /\ s[i] \in class THEN <<s[i]>> \o DigitRun(s, i + 1, class)
    ELSE <<>>

\* parseInt(s) and parseInt(s, 10): leading white space is skipped, an
\* optional sign is read, then the longest run of decimal digits; NaN when
\* that run is empty.  What follows the digits is ignored.
parseInt(s) ==
    LET i == SkipLeft(s, 1)
        neg == i <= Len(s) /\ s[i] = "-"
        j == IF i <= Len(s) /\ s[i] \in {"-", "+"} THEN i + 1 ELSE i
        run == DigitRun(s, j, Digits)
    IN IF run = <<>> THEN NaN
       ELSE Some(IF neg THEN 0 - DigitsValue(run, 10, 0) ELSE DigitsValue(run, 10, 0))

\* parseInt(s, 16) of a capture that holds hexadecimal digits only.
parseIntHex(s) == DigitsValue(DigitRun(s, 1, HexDigits), 16, 0)

\* Number.prototype.toString of a non-negative integer.
RECURSIVE NatToString(_)
NatToString(n) ==
    IF n < 10 THEN <<DigitChar(n)>>
    ELSE NatToString(n \div 10) \o <<DigitChar(n % 10)>>


\* ------------------------------------------------------------------------
\* Regular expressions (String.prototype.match without the g flag)
\*
\* A pattern is a sequence of items; an item matches a run of tokens of one
\* class: [set, neg] is the class (the tokens in set, or those not in set),
\* min is 0 or 1, many tells whether the run may be longer than one, lazy
\* whether the shortest run is tried first, cap whether the run is a
\* capture group.  The match is the leftmost one, found by backtracking.
\* ------------------------------------------------------------------------

Lit(tok) == [set |-> {tok}, neg |-> FALSE, min |-> 1, many |-> FALSE, lazy |-> FALSE, cap |-> FALSE]
Plus(class) == [set |-> class, neg |-> FALSE, min |-> 1, many |-> TRUE, lazy |-> FALSE, cap |-> FALSE]
Star(class) == [set |-> class, neg |-> FALSE, min |-> 0, many |-> TRUE, lazy |-> FALSE, cap |-> FALSE]
CapPlus(class) == [set |-> class, neg |-> FALSE, min |-> 1, many |-> TRUE, lazy |-> FALSE, cap |-> TRUE]
\* (.+): a dot matches every token but a line terminator
CapDotPlus == [set |-> LineTerminators, neg |-> TRUE, min |-> 1, many |-> TRUE, lazy |-> FALSE, cap |-> TRUE]
\* .*?
LazyDotStar == [set |-> LineTerminators, neg |-> TRUE, min |-> 0, many |-> TRUE, lazy |-> TRUE, cap |-> FALSE]

InClass(c, item) == (c \in item.set) # item.neg

NoMatch == [ok |-> FALSE, caps |-> <<>>]

RECURSIVE RunLen(_, _, _, _)
RunLen(s, i, item, n) ==
    IF (item.many \/ n < 1) /\ i + n <= Len(s) /\ InClass(s[i + n], item)
    THEN RunLen(s, i, item, n + 1)
    ELSE n

RECURSIVE MatchFrom(_, _, _, _), TryLen(_, _, _, _, _, _)
TryLen(s, i, pat, k, n, r) ==
    IF n < pat[k].min \/ n > r THEN NoMatch
    ELSE LET rest == MatchFrom(s, i + n, pat, k + 1)
         IN IF rest.ok
            THEN [ok |-> TRUE,
                  caps |-> IF pat[k].cap
                           THEN <<SubSeq(s, i, i + n - 1)>> \o rest.caps
                           ELSE rest.caps]
            ELSE TryLen(s, i, pat, k, IF pat[k].lazy THEN n + 1 ELSE n - 1, r)

MatchFrom(s, i, pat, k) ==
    IF k > Len(pat) THEN [ok |-> TRUE, caps |-> <<>>]
    ELSE LET r == RunLen(s, i, pat[k], 0)
         IN TryLen(s, i, pat, k, IF pat[k].lazy THEN pat[k].min ELSE r, r)

RECURSIVE SearchFrom(_, _, _)
SearchFrom(s, i, pat) ==
    IF i > Len(s) + 1 THEN NoMatch
    ELSE LET m == MatchFrom(s, i, pat, 1)
         IN IF m.ok THEN m ELSE SearchFrom(s, i + 1, pat)

match(s, pat) == SearchFrom(s, 1, pat)

\* /^\d+$/.test(s)
IsAllDigits(s) == s # <<>> /\ \A i \in 1..Len(s) : s[i] \in Digits

\* s.replace(/\B(?=(\d{3})+(?!\d))/g, ' '): a space goes in at every place
\* that is not a word boundary and is followed by a run of digits whose
\* length is a positive multiple of three.
Letters ==
    {"a", "b", "c", "d", "e", "f", "g", "h", "i", "j", "k", "l", "m", "n", "o",
     "p", "q", "r", "s", "t", "u", "v", "w", "x", "y", "z",
     "A", "B", "C", "D", "E", "F", "G", "H", "I", "J", "K", "L", "M", "N", "O",
     "P", "Q", "R", "S", "T", "U", "V", "W", "X", "Y", "Z"}
IsWordChar(c) == c \in Digits \cup Letters \cup {"_"}
GroupsOfThreeFollow(s, p) ==
    LET n == Len(DigitRun(s, p, Digits)) IN n > 0 /\ n % 3 = 0
NotWordBoundary(s, p) ==
    LET before == p > 1 /\ IsWordChar(s[p - 1])
        after == p <= Len(s) /\ IsWordChar(s[p])
    IN before = after

RECURSIVE groupThousandsFrom(_, _)
groupThousandsFrom(s, p) ==
    IF p > Len(s) THEN <<>>
    ELSE (IF NotWordBoundary(s, p) /\ GroupsOfThreeFollow(s, p) THEN <<" ">> ELSE <<>>)
         \o <<s[p]>> \o groupThousandsFrom(s, p + 1)

\* groupThousands counting the groups of three from the left
groupThousands_fromLeft(s) ==
    LET grouped[i \in 0..Len(s)] ==
            IF i = 0 THEN <<>>
            ELSE grouped[i - 1] \o <<s[i]>>
                 \o (IF i % 3 = 0 /\ i < Len(s) THEN <<" ">> ELSE <<>>)
    IN grouped[Len(s)]

groupThousands(s) == groupThousandsFrom(s, 1)


\* ------------------------------------------------------------------------
\* The machine: what each OS call, child process, registry query and file
\* read of electron/device-context.ts gives when it is made.
\*
\*   osThrows          the os.* call that throws a SystemError, or "none"
\*   hostname, username, ostype, release, arch, cpus, uptime
\*   totalMem, freeMem in MiB (os.totalmem() / 2^20), so that the quotient
\*                     by a GiB stays in TLC's integers
\*   interfaces        os.networkInterfaces(): the lists of entries, in the
\*                     order of Object.keys
\*   swVers, wmicDisk, df, wmicBios, wmicProduct, profiler, echoDomain,
\*   regNinja, defaultsTvVersion, tvGlobalConf      one outcome each
\*   ninjaConf, regTvId, defaultsTvId, regTvVersion one outcome for each
\*                     candidate location, in the order of the source
\* ------------------------------------------------------------------------

Platforms == {"win32", "darwin", "linux"}

MinOf(S) == CHOOSE x \in S : \A y \in S : x <= y

RECURSIVE Flatten(_)
Flatten(lists) ==
    IF lists = <<>> THEN <<>> ELSE Head(lists) \o Flatten(Tail(lists))

LoopbackAddress == "127.0.0.1"
ZeroMac == <<"0", "0", ":", "0", "0", ":", "0", "0", ":", "0", "0", ":", "0", "0", ":", "0", "0">>

\* getPrimaryIpAddress without the test of the address family
getPrimaryIpAddress_anyFamily(interfaces) ==
    LET entries == Flatten(interfaces)
        hits == {i \in 1..Len(entries) : ~entries[i].internal}
    IN IF hits = {} THEN LoopbackAddress ELSE entries[MinOf(hits)].address

getPrimaryIpAddress(interfaces) ==
    LET entries == Flatten(interfaces)
        hits == {i \in 1..Len(entries) :
                    entries[i].family = "IPv4" /\ ~entries[i].internal}
    IN IF hits = {} THEN LoopbackAddress ELSE entries[MinOf(hits)].address

\* getPrimaryMacAddress without the test for the all-zero address
getPrimaryMacAddress_anyMac(interfaces) ==
    LET entries == Flatten(interfaces)
        hits == {i \in 1..Len(entries) :
                   entries[i].family = "IPv4" /\ ~entries[i].internal /\ entries[i].mac # <<>>}
    IN IF hits = {} THEN Null ELSE Some(toUpperCase(entries[MinOf(hits)].mac))

getPrimaryMacAddress(interfaces) ==
    LET entries == Flatten(interfaces)
        hits == {i \in 1..Len(entries) :
                    /\ entries[i].family = "IPv4"
                    /\ ~entries[i].internal
                    /\ entries[i].mac # <<>>
                    /\ entries[i].mac # ZeroMac}
    IN IF hits = {} THEN Null ELSE Some(toUpperCase(entries[MinOf(hits)].mac))

getOsVersionFriendly(platform, m) ==
    IF platform = "darwin"
    THEN IF m.swVers.ok
         THEN <<"macOS", " ">> \o trim(m.swVers.out)
         ELSE <<"macOS", " ", "(">> \o m.release \o <<")">>
    ELSE IF platform = "win32"
    THEN <<"Windows", " ">> \o m.release
    ELSE m.ostype \o <<" ">> \o m.release

\* (n / d).toFixed(0): the nearest integer, the larger one of two equally
\* near; the sign of a negative number is kept, also in front of 0.
toFixed0(n, d) ==
    LET a == IF n < 0 THEN 0 - n ELSE n
        q == a \div d
        r == a % d
    IN (IF n < 0 THEN <<"-">> ELSE <<>>)
       \o NatToString(IF 2 * r >= d THEN q + 1 ELSE q)

\* (n / d).toFixed(1) of a non-negative n
toFixed1(n, d) ==
    LET q == n \div d
        r == n % d
        tenths == (2 * 10 * r + d) \div (2 * d)
    IN IF tenths = 10
       THEN NatToString(q + 1) \o <<".", "0">>
       ELSE NatToString(q) \o <<".">> \o NatToString(tenths)

GiB == 1073741824
KiB == 1024
MiBPerGiB == 1024
GB == <<" ", "G", "B">>

NullPair == [total |-> Null, free |-> Null]

\* getDiskInfo with each column checked on its own (df branch)
getDiskInfo_perField(platform, m) ==
    IF platform = "win32" \/ ~m.df.ok THEN NullPair
    ELSE LET parts == splitWs(trim(m.df.out))
         IN IF Len(parts) >= 4
            THEN LET total == parseInt(parts[2])
                     free == parseInt(parts[4])
                 IN [total |-> IF IsNaN(total) THEN Null
                               ELSE Some(toFixed0(Val(total) * KiB, GiB) \o GB),
                     free |-> IF IsNaN(free) THEN Null
                              ELSE Some(toFixed0(Val(free) * KiB, GiB) \o GB)]
            ELSE NullPair

getDiskInfo(platform, m) ==
    IF platform = "win32"
    THEN IF ~m.wmicDisk.ok THEN NullPair
         ELSE LET lines == filterNonBlank(split(trim(m.wmicDisk.out), "\n"))
              IN IF lines = <<>> THEN NullPair \* last is undefined: TypeError, caught
                 ELSE LET parts == split(lines[Len(lines)], ",")
                      IN IF Len(parts) >= 3
                         THEN LET free == parseInt(parts[2])
                                  total == parseInt(parts[3])
                              IN IF ~IsNaN(free) /\ ~IsNaN(total)
                                 THEN [total |-> Some(toFixed0(Val(total), GiB) \o GB),
                                       free |-> Some(toFixed0(Val(free), GiB) \o GB)]
                                 ELSE NullPair
                         ELSE NullPair
    ELSE IF ~m.df.ok THEN NullPair
         ELSE LET parts == splitWs(trim(m.df.out))
              IN IF Len(parts) >= 4
                 THEN LET total == parseInt(parts[2])
                          free == parseInt(parts[4])
                      IN IF ~IsNaN(total) /\ ~IsNaN(free)
                         THEN [total |-> Some(toFixed0(Val(total) * KiB, GiB) \o GB),
                               free |-> Some(toFixed0(Val(free) * KiB, GiB) \o GB)]
                         ELSE NullPair
                 ELSE NullPair

\* x.trim() || null
TrimOrNull(s) == IF trim(s) = <<>> THEN Null ELSE Some(trim(s))

NoHardware == [serialNumber |-> Null, manufacturer |-> Null, model |-> Null]

SerialNumberPattern == <<Lit("Serial Number"), LazyDotStar, Lit(":"), Star(WhiteSpace), CapDotPlus>>
ModelNamePattern == <<Lit("Model Name"), Lit(":"), Star(WhiteSpace), CapDotPlus>>
ChipPattern == <<Lit("Chip"), Lit(":"), Star(WhiteSpace), CapDotPlus>>

\* The last line of a wmic CSV output, split at the commas; <<>> stands for
\* the TypeError of splitting the last element of an empty array.
LastCsvLine(out) ==
    LET lines == filterNonBlank(split(trim(out), "\n"))
    IN IF lines = <<>> THEN <<>> ELSE split(lines[Len(lines)], ",")

\* One try block holds both wmic queries: whatever throws leaves the fields
\* assigned so far and abandons the rest.
getHardwareInfoWin32(m) ==
    IF ~m.wmicBios.ok THEN NoHardware
    ELSE LET serialLast == LastCsvLine(m.wmicBios.out)
         IN IF serialLast = <<>> THEN NoHardware
            ELSE LET r1 == [NoHardware EXCEPT !.serialNumber =
                               IF Len(serialLast) >= 2 THEN TrimOrNull(serialLast[2]) ELSE Null]
                 IN IF ~m.wmicProduct.ok THEN r1
                    ELSE LET prodLast == LastCsvLine(m.wmicProduct.out)
                         IN IF prodLast = <<>> THEN r1
                            ELSE IF Len(prodLast) >= 3
                            THEN [r1 EXCEPT !.model = TrimOrNull(prodLast[2]),
                                            !.manufacturer = TrimOrNull(prodLast[3])]
                            ELSE r1

getHardwareInfoDarwin(m) ==
    IF ~m.profiler.ok THEN NoHardware
    ELSE LET serialMatch == match(m.profiler.out, SerialNumberPattern)
             modelMatch == match(m.profiler.out, ModelNamePattern)
             mfgMatch == match(m.profiler.out, ChipPattern)
         IN [serialNumber |-> IF serialMatch.ok THEN Some(trim(serialMatch.caps[1])) ELSE Null,
             model |-> IF modelMatch.ok THEN Some(trim(modelMatch.caps[1])) ELSE Null,
             manufacturer |-> IF mfgMatch.ok
                              THEN Some(<<"Apple", " ">> \o trim(mfgMatch.caps[1]))
                              ELSE Some(<<"Apple">>)]

getHardwareInfo(platform, m) ==
    IF platform = "win32" THEN getHardwareInfoWin32(m)
    ELSE IF platform = "darwin" THEN getHardwareInfoDarwin(m)
    ELSE NoHardware

Unexpanded == <<"%USERDOMAIN%">>

\* getDomain without the trim of the output
getDomain_untrimmed(platform, m) ==
    IF platform # "win32" THEN Null
    ELSE IF ~m.echoDomain.ok THEN Null
    ELSE IF m.echoDomain.out # Unexpanded THEN Some(m.echoDomain.out) ELSE Null

getDomain(platform, m) ==
    IF platform # "win32" THEN Null
    ELSE IF ~m.echoDomain.ok THEN Null
    ELSE LET result == trim(m.echoDomain.out)
         IN IF result # Unexpanded THEN Some(result) ELSE Null


\* ------------------------------------------------------------------------
\* Remote-agent identity probes
\* ------------------------------------------------------------------------

NinjaDwordPattern ==
    <<Lit("DeviceId"), Plus(WhiteSpace), Lit("REG_DWORD"), Plus(WhiteSpace),
      Lit("0x"), CapPlus(HexDigits)>>
NinjaStringPattern ==
    <<Lit("DeviceId"), Plus(WhiteSpace), Lit("REG_SZ"), Plus(WhiteSpace), CapPlus(Digits)>>
NinjaConfPattern ==
    <<Lit("\"device_id\""), Star(WhiteSpace), Lit(":"), Star(WhiteSpace), CapPlus(Digits)>>
ClientIdDwordPattern ==
    <<Lit("ClientID"), Plus(WhiteSpace), Lit("REG_DWORD"), Plus(WhiteSpace),
      Lit("0x"), CapPlus(HexDigits)>>
GlobalConfPattern ==
    <<Lit("[int32]"), Star(WhiteSpace), Lit("ClientID"), Star(WhiteSpace), Lit("="),
      Star(WhiteSpace), CapPlus(Digits)>>
VersionPattern ==
    <<Lit("Version"), Plus(WhiteSpace), Lit("REG_SZ"), Plus(WhiteSpace), CapDotPlus>>

\* NinjaFromRegistry reading the REG_DWORD capture without the radix 16
NinjaFromRegistry_decimal(q) ==
    IF ~q.ok THEN Null
    ELSE LET dword == match(q.out, NinjaDwordPattern)
             str == match(q.out, NinjaStringPattern)
         IN IF dword.ok THEN Some(DigitsValue(DigitRun(dword.caps[1], 1, Digits), 10, 0))
            ELSE IF str.ok THEN Some(DigitsValue(str.caps[1], 10, 0))
            ELSE Null

\* The value one location yields, Null when it yields none.
NinjaFromRegistry(q) ==
    IF ~q.ok THEN Null
    ELSE LET dword == match(q.out, NinjaDwordPattern)
             str == match(q.out, NinjaStringPattern)
         IN IF dword.ok THEN Some(parseIntHex(dword.caps[1]))
            ELSE IF str.ok THEN Some(DigitsValue(str.caps[1], 10, 0))
            ELSE Null

NinjaFromConf(f) ==
    IF ~f.ok THEN Null
    ELSE LET conf == match(f.out, NinjaConfPattern)
         IN IF conf.ok THEN Some(DigitsValue(conf.caps[1], 10, 0)) ELSE Null

TvIdFromRegistry(q) ==
    IF ~q.ok THEN Null
    ELSE LET dword == match(q.out, ClientIdDwordPattern)
         IN IF dword.ok
            THEN Some(groupThousands(NatToString(parseIntHex(dword.caps[1]))))
            ELSE Null

TvIdFromDefaults(q) ==
    IF ~q.ok THEN Null
    ELSE LET id == trim(q.out)
         IN IF id # <<>> /\ IsAllDigits(id) THEN Some(groupThousands(id)) ELSE Null

TvIdFromGlobalConf(f) ==
    IF ~f.ok THEN Null
    ELSE LET conf == match(f.out, GlobalConfPattern)
         IN IF conf.ok THEN Some(groupThousands(conf.caps[1])) ELSE Null

TvVersionFromRegistry(q) ==
    IF ~q.ok THEN Null
    ELSE LET ver == match(q.out, VersionPattern)
         IN IF ver.ok THEN Some(trim(ver.caps[1])) ELSE Null

TvVersionFromDefaults(q) ==
    IF ~q.ok THEN Null
    ELSE IF trim(q.out) # <<>> THEN Some(trim(q.out)) ELSE Null

\* for (const p of paths) { try { ... return } catch { continue } }: the
\* value of the first location, from the i-th on, that yields one.
RECURSIVE ninjaConfLoop(_, _)
ninjaConfLoop(files, i) ==
    IF i > Len(files) THEN Null
    ELSE IF ~IsNull(NinjaFromConf(files[i])) THEN NinjaFromConf(files[i])
    ELSE ninjaConfLoop(files, i + 1)

RECURSIVE tvIdRegistryLoop(_, _)
tvIdRegistryLoop(queries, i) ==
    IF i > Len(queries) THEN Null
    ELSE IF ~IsNull(TvIdFromRegistry(queries[i])) THEN TvIdFromRegistry(queries[i])
    ELSE tvIdRegistryLoop(queries, i + 1)

RECURSIVE tvIdDefaultsLoop(_, _)
tvIdDefaultsLoop(queries, i) ==
    IF i > Len(queries) THEN Null
    ELSE IF ~IsNull(TvIdFromDefaults(queries[i])) THEN TvIdFromDefaults(queries[i])
    ELSE tvIdDefaultsLoop(queries, i + 1)

RECURSIVE tvVersionRegistryLoop(_, _)
tvVersionRegistryLoop(queries, i) ==
    IF i > Len(queries) THEN Null
    ELSE IF ~IsNull(TvVersionFromRegistry(queries[i])) THEN TvVersionFromRegistry(queries[i])
    ELSE tvVersionRegistryLoop(queries, i + 1)

readNinjaDeviceId(platform, m) ==
    IF platform = "win32" THEN NinjaFromRegistry(m.regNinja)
    ELSE IF platform = "darwin" THEN ninjaConfLoop(m.ninjaConf, 1)
    ELSE Null

readTeamViewerId(platform, m) ==
    IF platform = "win32" THEN tvIdRegistryLoop(m.regTvId, 1)
    ELSE IF platform = "darwin"
    THEN IF ~IsNull(tvIdDefaultsLoop(m.defaultsTvId, 1))
         THEN tvIdDefaultsLoop(m.defaultsTvId, 1)
         ELSE TvIdFromGlobalConf(m.tvGlobalConf)
    ELSE Null

readTeamViewerVersion(platform, m) ==
    IF platform = "win32" THEN tvVersionRegistryLoop(m.regTvVersion, 1)
    ELSE IF platform = "darwin" THEN TvVersionFromDefaults(m.defaultsTvVersion)
    ELSE Null

\* ------------------------------------------------------------------------
\* The aggregator
\* ------------------------------------------------------------------------

SecondsPerDay == 86400
SecondsPerHour == 3600
SecondsPerMinute == 60

\* formatUptime with the day segment also when there are no days
formatUptime_alwaysDays(uptimeSec) ==
    NatToString(uptimeSec \div SecondsPerDay) \o <<"d", " ">>
    \o NatToString((uptimeSec % SecondsPerDay) \div SecondsPerHour) \o <<"h", " ">>
    \o NatToString((uptimeSec % SecondsPerHour) \div SecondsPerMinute) \o <<"m">>

formatUptime(uptimeSec) ==
    LET days == uptimeSec \div SecondsPerDay
        hours == (uptimeSec % SecondsPerDay) \div SecondsPerHour
        mins == (uptimeSec % SecondsPerHour) \div SecondsPerMinute
    IN IF days > 0
       THEN NatToString(days) \o <<"d", " ">> \o NatToString(hours) \o <<"h", " ">>
            \o NatToString(mins) \o <<"m">>
       ELSE NatToString(hours) \o <<"h", " ">> \o NatToString(mins) \o <<"m">>

\* What collectDeviceContext() gives back, or that it threw.
Threw == [status |-> "threw"]
Returned(v) == [status |-> "ok", value |-> v]
NotCollected == [status |-> "none"]

\* None of the os.* calls is inside a try block.
collectDeviceContext(platform, m) ==
    IF m.osThrows # "none" THEN Threw
    ELSE LET diskInfo == getDiskInfo(platform, m)
             hwInfo == getHardwareInfo(platform, m)
         IN Returned(
              [computerName |-> m.hostname,
               loggedInUser |-> m.username,
               osVersion |-> getOsVersionFriendly(platform, m),
               osPlatform |-> platform,
               ipAddress |-> getPrimaryIpAddress(m.interfaces),
               macAddress |-> getPrimaryMacAddress(m.interfaces),
               domain |-> getDomain(platform, m),
               cpu |-> IF Len(m.cpus) > 0 THEN trim(m.cpus[1]) ELSE <<"Unknown">>,
               arch |-> m.arch,
               totalMemoryGB |-> toFixed1(m.totalMem, MiBPerGiB),
               freeMemoryGB |-> toFixed1(m.freeMem, MiBPerGiB),
               diskTotal |-> diskInfo.total,
               diskFree |-> diskInfo.free,
               serialNumber |-> hwInfo.serialNumber,
               manufacturer |-> hwInfo.manufacturer,
               model |-> hwInfo.model,
               uptimeFormatted |-> formatUptime(m.uptime),
               ninjaDeviceId |-> readNinjaDeviceId(platform, m),
               teamviewerId |-> readTeamViewerId(platform, m),
               teamviewerVersion |-> readTeamViewerVersion(platform, m)])

DeviceContextFields ==
    {"computerName", "loggedInUser", "osVersion", "osPlatform", "ipAddress",
     "macAddress", "domain", "cpu", "arch", "totalMemoryGB", "freeMemoryGB",
     "diskTotal", "diskFree", "serialNumber", "manufacturer", "model",
     "uptimeFormatted", "ninjaDeviceId", "teamviewerId", "teamviewerVersion"}

NullableTextFields ==
    {"macAddress", "domain", "diskTotal", "diskFree", "serialNumber",
     "manufacturer", "model", "teamviewerId", "teamviewerVersion"}


\* ------------------------------------------------------------------------
\* State
\* ------------------------------------------------------------------------

VARIABLES
    platform,       \* os.platform()
    machine,        \* the live machine state the probes read
    ctx,            \* what the last get-device-context call gave the caller
    agentProbe,     \* a remote-agent probe under way: the locations it has read
    snapshots,      \* every device context handed out so far, oldest first
    settingsFile,   \* settings.json in the userData directory
    settingsOut,    \* what the last call of the settings store returned
    locale,         \* currentLocale; t is Translations(locale)
    deviceContext,  \* the renderer's copy of the device context, or Null
    userEmail,      \* text of the user-email element
    view,           \* currentView
    form,           \* values of field-category, field-summary, field-description
    disabled,       \* btnSubmit.disabled (the loader is shown exactly then)
    toast,          \* the error toast: shown, and the text of toast-message
    timers,         \* pending setTimeout(hideToast, 5000) callbacks
    calls,          \* submitTicket invocations that have not been resumed
    ticketCalls,    \* getTickets invocations of the badge that are in flight
    badge,          \* ticket-count-badge: shown, and its text
    successRef,     \* text of the success-ref element
    clicks,         \* click events the submit button has dispatched
    submits,        \* submitTicket invocations made
    posts,          \* POST requests sent to {apiBaseUrl}/tickets
    health,         \* where checkApiConnection() stands
    mainStatus,     \* main-status-dot and main-status-device
    ticketsList,    \* the tickets view: what it shows, and the cards of tickets-list
    emailLookup,    \* the resolve-email lookup of init(): not made, pending, settled
    badgeLatest     \* the getTickets call the badge issued last: in flight or settled

storeVars == <<settingsFile, settingsOut>>
probeVars == <<platform, machine, ctx, agentProbe, snapshots, storeVars>>
rendererVars ==
    <<locale, deviceContext, userEmail, view, form, disabled, toast, timers,
      calls, ticketCalls, badge, successRef, clicks, submits, posts,
      health, mainStatus, ticketsList, emailLookup, badgeLatest>>
vars == <<probeVars, rendererVars>>

\* ------------------------------------------------------------------------
\* Machine states
\* ------------------------------------------------------------------------

MaxInterfaces == 2
MaxFields == 4

Crlf == <<"\r", "\n">>

Mac1 == <<"a", "c", ":", "d", "e", ":", "4", "8", ":", "0", "0", ":", "1", "1", ":", "2", "2">>
Mac2 == <<"0", "2", ":", "4", "2", ":", "a", "c", ":", "1", "1", ":", "0", "0", ":", "0", "2">>

\* Entries of os.networkInterfaces().  dummy4 is a loopback address
\* configured on an interface that is not the loopback interface
\* (ip addr add 127.0.0.1/8 dev dummy0).
Nic ==
    [lo4 |-> [family |-> "IPv4", internal |-> TRUE, address |-> "127.0.0.1", mac |-> ZeroMac],
     lo6 |-> [family |-> "IPv6", internal |-> TRUE, address |-> "::1", mac |-> ZeroMac],
     eth4 |-> [family |-> "IPv4", internal |-> FALSE, address |-> "10.0.0.5", mac |-> Mac1],
     eth6 |-> [family |-> "IPv6", internal |-> FALSE, address |-> "fe80::1", mac |-> Mac1],
     wifi4 |-> [family |-> "IPv4", internal |-> FALSE, address |-> "192.168.1.7", mac |-> Mac2],
     tunnel4 |-> [family |-> "IPv4", internal |-> FALSE, address |-> "172.16.0.9", mac |-> ZeroMac],
     dummy4 |-> [family |-> "IPv4", internal |-> FALSE, address |-> "127.0.0.1", mac |-> Mac2]]

InterfaceLists ==
    {<<Nic.lo4, Nic.lo6>>, <<Nic.eth6, Nic.eth4>>, <<Nic.wifi4>>, <<Nic.tunnel4>>, <<Nic.dummy4>>, <<Nic.eth6>>}

RECURSIVE SeqsUpTo(_, _)
SeqsUpTo(S, n) ==
    IF n = 0 THEN {<<>>}
    ELSE LET shorter == SeqsUpTo(S, n - 1)
         IN shorter \cup {Append(q, x) : q \in {t \in shorter : Len(t) = n - 1}, x \in S}

InterfaceListings == SeqsUpTo(InterfaceLists, MaxInterfaces)

RECURSIVE Join(_, _)
Join(fields, sep) ==
    IF fields = <<>> THEN <<>>
    ELSE IF Len(fields) = 1 THEN fields[1]
    ELSE fields[1] \o <<sep>> \o Join(Tail(fields), sep)

\* Columns of the last line of the disk utility's output.
DiskFields ==
    {<<>>, <<"P", "C">>, <<"2", "0", "9", "7", "1", "5", "1">>,
     <<"1", "0", "4", "8", "5", "7", "6">>, <<"7", "%">>}
DiskRows == SeqsUpTo(DiskFields, MaxFields)

WmicDiskOutput(row) ==
    Crlf \o <<"N", "o", "d", "e", ",", "F", "r", "e", "e", ",", "S", "i", "z", "e">> \o Crlf
    \o Join(row, ",") \o Crlf
DfOutput(row) == Join(row, " ") \o <<"\n">>

\* wmic bios get serialnumber /format:csv
BiosOutputs ==
    {Throws,
     Ok(<<>>),
     Ok(Crlf \o <<"Node", ",", "SerialNumber">> \o Crlf \o <<"P", "C", ",", "S", "N", "7">> \o Crlf),
     Ok(Crlf \o <<"Node", ",", "SerialNumber">> \o Crlf \o <<"P", "C", ",", " ">> \o Crlf)}
\* wmic csproduct get name,vendor /format:csv
ProductOutputs ==
    {Throws,
     Ok(Crlf \o <<"Node", ",", "Name", ",", "Vendor">> \o Crlf
        \o <<"P", "C", ",", "X", "1", ",", "D", "e", "l", "l">> \o Crlf),
     Ok(Crlf \o <<"Node", ",", "Name", ",", "Vendor">> \o Crlf
        \o <<"P", "C", ",", "X", "1", ",">> \o Crlf)}
\* system_profiler SPHardwareDataType
ProfilerOutputs ==
    {Throws,
     Ok(<<"Model Name", ":", " ", "M", "B", "P", "\n", "Chip", ":", " ", "M", "1", "\n",
          "Serial Number", " ", "(", "s", ")", ":", " ", "C", "0", "2", "\n">>),
     Ok(<<"Model Name", ":", " ", "M", "B", "P", "\n",
          "Serial Number", " ", "(", "s", ")", ":", " ", "C", "0", "2", "\n">>),
     Ok(<<"H", "a", "r", "d", "w", "a", "r", "e", ":", "\n">>)}
\* echo %USERDOMAIN%
DomainOutputs ==
    {Throws, Ok(<<"%USERDOMAIN%">> \o Crlf), Ok(<<"C", "O", "R", "P">> \o Crlf), Ok(Crlf)}
\* sw_vers -productVersion
SwVersOutputs == {Throws, Ok(<<"1", "4", ".", "1", "\n">>)}
\* reg query "HKLM\SOFTWARE\NinjaRMM LLC\NinjaRMMAgent" /v DeviceId
NinjaRegOutputs ==
    {Throws,
     Ok(Crlf \o <<" ", "DeviceId", " ", " ", "REG_DWORD", " ", " ", "0x", "1", "A", "2", "B">> \o Crlf),
     Ok(Crlf \o <<" ", "DeviceId", " ", " ", "REG_SZ", " ", " ", "1", "2", "3", "4", "5">> \o Crlf)}
\* ninjarmm-macagent.conf
NinjaConfOutputs ==
    {Throws,
     Ok(<<"{", "\"device_id\"", ":", " ", "4", "2", ",", "}">>),
     Ok(<<"{", "}">>)}
\* reg query "<TeamViewer key>" /v ClientID
TvIdRegOutputs ==
    {Throws,
     Ok(Crlf \o <<" ", "ClientID", " ", "REG_DWORD", " ", "0x", "4", "9", "9", "6">> \o Crlf)}
\* defaults read "<plist>" ClientID
TvIdDefaultsOutputs == {Throws, Ok(<<"1", "2", "3", "4", "5", "6", "7", "\n">>)}
\* /opt/teamviewer/config/global.conf
TvGlobalConfOutputs ==
    {Throws, Ok(<<"[int32]", " ", "ClientID", " ", "=", " ", "9", "8", "7", "6", "\n">>)}
\* reg query "<TeamViewer key>" /v Version
TvVersionRegOutputs ==
    {Throws,
     Ok(Crlf \o <<" ", "Version", " ", "REG_SZ", " ", " ", "1", "5", ".", "2">> \o Crlf),
     \* a REG_SZ value that is the empty string
     Ok(Crlf \o <<" ", "Version", " ", "REG_SZ", " ", " ">> \o Crlf \o Crlf)}
\* defaults read .../Info.plist CFBundleShortVersionString
TvVersionDefaultsOutputs == {Throws, Ok(<<"1", "5", ".", "2", "\n">>), Ok(<<"\n">>)}

OsThrowsChoices == {"none", "userInfo", "networkInterfaces"}

\* A machine on which every probe finds nothing.
BareMachine ==
    [osThrows |-> "none",
     hostname |-> <<"P", "C", "7">>,
     username |-> <<"j", ".", "d", "o", "e">>,
     ostype |-> <<"Linux">>,
     release |-> <<"6", ".", "1">>,
     arch |-> <<"x", "6", "4">>,
     cpus |-> << <<"i", "7", " ">> >>,
     totalMem |-> 16384,
     freeMem |-> 1536,
     uptime |-> 90000,
     interfaces |-> << <<Nic.lo4, Nic.lo6>> >>,
     swVers |-> Throws,
     wmicDisk |-> Throws,
     df |-> Throws,
     wmicBios |-> Throws,
     wmicProduct |-> Throws,
     profiler |-> Throws,
     echoDomain |-> Throws,
     regNinja |-> Throws,
     ninjaConf |-> <<Throws, Throws>>,
     regTvId |-> <<Throws, Throws>>,
     defaultsTvId |-> <<Throws, Throws>>,
     tvGlobalConf |-> Throws,
     regTvVersion |-> <<Throws, Throws>>,
     defaultsTvVersion |-> Throws]

GoodDiskRow == << <<"P", "C">>, <<"1", "0", "4", "8", "5", "7", "6">>, <<"2", "0", "9", "7", "1", "5", "1">>, <<"7", "%">> >>

\* The machines of the aggregator's specification: on each platform, every
\* combination of outcomes of the probes that platform makes.
Win32Machines ==
    {[BareMachine EXCEPT
        !.osThrows = t, !.wmicDisk = d, !.wmicBios = b, !.wmicProduct = p,
        !.echoDomain = e, !.regNinja = n, !.regTvId = <<i1, i2>>,
        !.regTvVersion = <<v1, v2>>] :
        t \in OsThrowsChoices,
        d \in {Throws, Ok(WmicDiskOutput(GoodDiskRow))},
        b \in BiosOutputs, p \in ProductOutputs, e \in DomainOutputs,
        n \in NinjaRegOutputs, i1 \in TvIdRegOutputs, i2 \in TvIdRegOutputs,
        v1 \in TvVersionRegOutputs, v2 \in TvVersionRegOutputs}

DarwinMachines ==
    {[BareMachine EXCEPT
        !.osThrows = t, !.swVers = s, !.df = d, !.profiler = h,
        !.ninjaConf = <<n1, n2>>, !.defaultsTvId = <<i1, i2>>,
        !.tvGlobalConf = g, !.defaultsTvVersion = v] :
        t \in OsThrowsChoices, s \in SwVersOutputs,
        d \in {Throws, Ok(DfOutput(GoodDiskRow))},
        h \in ProfilerOutputs, n1 \in NinjaConfOutputs, n2 \in NinjaConfOutputs,
        i1 \in TvIdDefaultsOutputs, i2 \in TvIdDefaultsOutputs,
        g \in TvGlobalConfOutputs, v \in TvVersionDefaultsOutputs}

LinuxMachines ==
    {[BareMachine EXCEPT !.osThrows = t, !.df = d, !.interfaces = l] :
        t \in OsThrowsChoices,
        d \in {Throws, Ok(DfOutput(GoodDiskRow))},
        l \in {<<>>, << <<Nic.lo4>>, <<Nic.eth6, Nic.eth4>> >>}}

MachinesOf(p) ==
    IF p = "win32" THEN Win32Machines
    ELSE IF p = "darwin" THEN DarwinMachines
    ELSE LinuxMachines

\* ------------------------------------------------------------------------
\* ipcMain.handle('get-device-context')
\* ------------------------------------------------------------------------

\* No remote-agent probe is being followed.
NoProbe == [name |-> "none"]

MaxCollections == 2

\* The handler with a cache: after the first call it hands out the context
\* collected then.
GetDeviceContext_cached ==
    /\ Len(snapshots) < MaxCollections
    /\ ctx' = IF snapshots = <<>> THEN collectDeviceContext(platform, machine) ELSE ctx
    /\ snapshots' = Append(snapshots, [machine |-> machine, value |-> ctx'])
    /\ UNCHANGED <<platform, machine, agentProbe, storeVars>>
    /\ UNCHANGED rendererVars

\* The handler keeps nothing between two calls: each call runs
\* collectDeviceContext() and hands its caller the object built by that run.
GetDeviceContext ==
    /\ Len(snapshots) < MaxCollections
    /\ ctx' = collectDeviceContext(platform, machine)
    /\ snapshots' = Append(snapshots, [machine |-> machine, value |-> ctx'])
    /\ UNCHANGED <<platform, machine, agentProbe, storeVars>>
    /\ UNCHANGED rendererVars

\* ------------------------------------------------------------------------
\* The settings store (electron/settings-store.ts)
\*
\* The settings file is absent, [kind |-> "absent"], present but not
\* readable, [kind |-> "unreadable"], or holds text, [kind |-> "text",
\* raw |-> the tokens].  The tokens of JSON text are the punctuation, the
\* literals true, false and null, digits, white space, and one token for
\* each quoted member name.  An object is a function from member names to
\* values.
\* ------------------------------------------------------------------------

DEFAULTS ==
    [shareDeviceContext |-> TRUE,
     sendErrorReports |-> TRUE,
     autoScreenshots |-> FALSE,
     showTips |-> TRUE,
     ticketUpdates |-> TRUE]

SettingKeys == DOMAIN DEFAULTS

\* The order in which an object that began as a copy of DEFAULTS lists its
\* members; a member DEFAULTS lacks comes after them.
MemberOrder ==
    <<"shareDeviceContext", "sendErrorReports", "autoScreenshots", "showTips",
      "ticketUpdates", "legacy">>

\* { ...a, ...b } for two objects
Spread(a, b) ==
    [k \in DOMAIN a \cup DOMAIN b |-> IF k \in DOMAIN b THEN b[k] ELSE a[k]]

JsonLiteral(v) == IF v THEN "true" ELSE "false"

\* JSON.stringify(obj, null, 2): one member per line, indented by two
\* spaces, separated by commas.
RECURSIVE stringifyMembers(_, _, _)
stringifyMembers(obj, i, first) ==
    IF i > Len(MemberOrder) THEN <<>>
    ELSE IF MemberOrder[i] \notin DOMAIN obj THEN stringifyMembers(obj, i + 1, first)
    ELSE (IF first THEN <<>> ELSE <<",">>)
         \o <<"\n", " ", " ", MemberOrder[i], ":", " ", JsonLiteral(obj[MemberOrder[i]])>>
         \o stringifyMembers(obj, i + 1, FALSE)

stringify(obj) ==
    IF DOMAIN obj = {} THEN <<"{", "}">>
    ELSE <<"{">> \o stringifyMembers(obj, 1, TRUE) \o <<"\n", "}">>

\* JSON.parse: the value of the text, or that it threw a SyntaxError.  A
\* value is [kind |-> "object", members |-> f], or of another kind.
JsonPunctuation == {"{", "}", ":", ","}

RECURSIVE parseMembers(_, _, _)
parseMembers(toks, i, acc) ==
    IF i + 3 > Len(toks) THEN Threw
    ELSE IF toks[i] \in JsonPunctuation \cup {"true", "false", "null"} \cup Digits
            \/ toks[i + 1] # ":"
            \/ toks[i + 2] \notin {"true", "false"}
    THEN Threw
    ELSE LET members == Spread(acc, toks[i] :> (toks[i + 2] = "true"))
         IN IF toks[i + 3] = "}"
            THEN IF i + 3 = Len(toks)
                 THEN Returned([kind |-> "object", members |-> members])
                 ELSE Threw
            ELSE IF toks[i + 3] = ","
            THEN parseMembers(toks, i + 4, members)
            ELSE Threw

JsonParse(raw) ==
    LET toks == SelectSeq(raw, LAMBDA c : c \notin WhiteSpace)
    IN IF toks = <<>> THEN Threw
       ELSE IF toks = <<"null">> THEN Returned([kind |-> "null"])
       ELSE IF IsAllDigits(toks) THEN Returned([kind |-> "number"])
       ELSE IF toks = <<"{", "}">> THEN Returned([kind |-> "object", members |-> <<>>])
       ELSE IF toks[1] = "{" THEN parseMembers(toks, 2, <<>>)
       ELSE Threw

\* The try block of loadSettings(): existsSync, readFileSync, JSON.parse
\* and the merge.  Spreading a value that is no object adds no member.
loadSettingsTry(file) ==
    IF file.kind = "absent" THEN Returned(DEFAULTS)
    ELSE IF file.kind = "unreadable" THEN Threw
    ELSE LET parsed == JsonParse(file.raw)
         IN IF parsed = Threw THEN Threw
            ELSE IF parsed.value.kind = "object"
            THEN Returned(Spread(DEFAULTS, parsed.value.members))
            ELSE Returned(DEFAULTS)

\* loadSettings() returning the parsed object with no merge into DEFAULTS
loadSettings_noDefaults(file) ==
    IF loadSettingsTry(file) = Threw \/ file.kind = "absent" THEN Returned(DEFAULTS)
    ELSE IF JsonParse(file.raw).value.kind = "object"
    THEN Returned(JsonParse(file.raw).value.members)
    ELSE Returned(<<>>)

loadSettings(file) ==
    IF loadSettingsTry(file) = Threw THEN Returned(DEFAULTS) ELSE loadSettingsTry(file)

\* How writeFileSync (with the mkdirSync before it) can go: the text is
\* written; the call throws and the file is as before; the call throws
\* after the file was truncated and part of the text written.
WriteOutcomes == {"written", "failed", "truncated"}

Truncated(text) == SubSeq(text, 1, Len(text) \div 2)

\* saveSettings(partial): the file afterwards, and the value returned.
saveSettings(file, partial, w) ==
    LET current == loadSettings(file).value
        updated == Spread(current, partial)
    IN [file |-> IF w = "written" THEN [kind |-> "text", raw |-> stringify(updated)]
                 ELSE IF w = "truncated"
                 THEN [kind |-> "text", raw |-> Truncated(stringify(updated))]
                 ELSE file,
        value |-> updated]

LoadSettings ==
    /\ settingsOut' = [op |-> "load", result |-> loadSettings(settingsFile)]
    /\ UNCHANGED <<settingsFile, platform, machine, ctx, agentProbe, snapshots>>
    /\ UNCHANGED rendererVars

SaveSettings(partial, w) ==
    /\ settingsFile' = saveSettings(settingsFile, partial, w).file
    /\ settingsOut' = [op |-> "save", partial |-> partial,
                       result |-> Returned(saveSettings(settingsFile, partial, w).value)]
    /\ UNCHANGED <<platform, machine, ctx, agentProbe, snapshots>>
    /\ UNCHANGED rendererVars

\* setSetting(key, value): saveSettings({ [key]: value }), nothing returned
SetSetting(key, value, w) ==
    /\ settingsFile' = saveSettings(settingsFile, key :> value, w).file
    /\ settingsOut' = [op |-> "set", partial |-> key :> value]
    /\ UNCHANGED <<platform, machine, ctx, agentProbe, snapshots>>
    /\ UNCHANGED rendererVars

\* ------------------------------------------------------------------------
\* ipcMain.handle('submit-ticket'): what the handler returns, given how the
\* fetch of {apiBaseUrl}/tickets went.
\*
\* An outcome is [kind |-> "rejected", isError, message], the fetch promise
\* rejecting with no HTTP response, or [kind |-> "response", status, body];
\* a body is [json |-> FALSE], text that is no JSON, or [json |-> TRUE,
\* data |-> d] with d the JSON null, [kind |-> "null"], or an object
\* [kind |-> "object", message, ticket] whose two members may be absent.
\* ------------------------------------------------------------------------

Failure(msg) == [success |-> FALSE, data |-> Null, error |-> Some(msg)]
Success(data) == [success |-> TRUE, data |-> Some(data), error |-> Null]

OkStatusFirst == 200
OkStatusLast == 299
\* Response.ok
ResponseOk(status) == status >= OkStatusFirst /\ status <= OkStatusLast

\* x || fallback, for a text member x that may be absent
OrElse(x, fallback) == IF IsNull(x) \/ x = Some("") THEN fallback ELSE Val(x)

submitTicketHandler(o) ==
    IF o.kind = "rejected"
    THEN Failure(IF o.isError THEN o.message ELSE "Unknown error")
    ELSE IF ~o.body.json
    THEN Failure("Unexpected token < in JSON at position 0") \* response.json() rejects
    ELSE IF ResponseOk(o.status)
    THEN Success(o.body.data)
    ELSE IF o.body.data.kind = "null"
    THEN Failure("Cannot read properties of null (reading 'message')")
    ELSE Failure(OrElse(o.body.data.message, "Submission failed"))

\* ------------------------------------------------------------------------
\* The renderer (src/main.ts)
\* ------------------------------------------------------------------------

\* The three toast messages of a locale (umlauts written out).
Translations(l) ==
    IF l = "de"
    THEN [toastFillFields |-> "Bitte fuellen Sie alle Pflichtfelder aus.",
          toastSubmitFailed |-> "Ticket konnte nicht gesendet werden. Bitte versuchen Sie es erneut.",
          toastConnectionError |-> "Verbindungsfehler. Bitte ueberpruefen Sie Ihre Internetverbindung."]
    ELSE [toastFillFields |-> "Please fill in all required fields.",
          toastSubmitFailed |-> "Failed to submit ticket. Please try again.",
          toastConnectionError |-> "Connection error. Please check your internet and try again."]

\* validateEmailForm without the trim of the summary
validateEmailForm_untrimmed(f) ==
    /\ f.category # ""
    /\ f.summary # <<>>
    /\ trim(f.description) # <<>>

validateEmailForm(f) ==
    /\ f.category # ""
    /\ trim(f.summary) # <<>>
    /\ trim(f.description) # <<>>

\* setLoading that only swaps the label and the loader
setLoading_neverDisables(loading) == FALSE

\* btnSubmit.disabled after setLoading(loading)
setLoading(loading) == loading

\* toast-error after showToast(message); the caller also starts its timer
showToast(message) == [shown |-> TRUE, message |-> message]
hideToast(tst) == [tst EXCEPT !.shown = FALSE]

\* getUserEmail()
getUserEmail(text) == trim(text)
HasAtSign(email) == \E i \in 1..Len(email) : email[i] = "@"

\* The text populateAll() gives the user-email element; with no device
\* context the element keeps the text of the page.
PopulatedEmail(dc) ==
    IF IsNull(dc) THEN <<>>
    ELSE IF ~IsNull(Val(dc).domain) /\ Val(Val(dc).domain) # <<>>
    THEN Val(dc).loggedInUser \o <<"@">> \o Val(Val(dc).domain)
    ELSE IF Val(dc).loggedInUser # <<>> THEN Val(dc).loggedInUser ELSE <<"EMDASH">>

\* The members of ticketData that come from the page; the others copy the
\* device context and the urgency.
TicketData(f, emailText) ==
    [email |-> trim(emailText),
     category |-> f.category,
     summary |-> trim(f.summary),
     description |-> trim(f.description)]

RefCodeLength == 8
\* `ATLAS-${ticketId.substring(0, 8).toUpperCase()}`
RefCode(ticketId) ==
    <<"ATLAS-">> \o toUpperCase(SubSeq(ticketId, 1,
        IF Len(ticketId) < RefCodeLength THEN Len(ticketId) ELSE RefCodeLength))

EmptyForm == [category |-> "", summary |-> <<>>, description |-> <<>>]

\* What the user can put into the form.  The category is the value of a
\* select element: the empty placeholder option or one of the categories.
Blank == <<" ">>
NoInk == <<"n", "o", " ", "i", "n", "k">>
Forms ==
    {EmptyForm,
     [category |-> "Printing", summary |-> NoInk, description |-> NoInk],
     [category |-> "", summary |-> NoInk, description |-> NoInk],
     [category |-> "Printing", summary |-> <<>>, description |-> NoInk],
     [category |-> "Printing", summary |-> Blank, description |-> NoInk],
     [category |-> "Printing", summary |-> NoInk, description |-> <<>>],
     [category |-> "Printing", summary |-> NoInk, description |-> Blank]}

MaxClicks == 2

\* ------------------------------------------------------------------------
\* Answers of the backend
\* ------------------------------------------------------------------------

TicketId == <<"a", "b", "c", "d", "e", "f", "1", "2", "-", "3", "4">>
JsonNull == [kind |-> "null"]
JsonObject(message, ticket) == [kind |-> "object", message |-> message, ticket |-> ticket]

Bodies ==
    {[json |-> FALSE],
     [json |-> TRUE, data |-> JsonNull],
     [json |-> TRUE, data |-> JsonObject(Null, Some(TicketId))],
     [json |-> TRUE, data |-> JsonObject(Some("email must be an email"), Null)],
     [json |-> TRUE, data |-> JsonObject(Some(""), Null)],
     [json |-> TRUE, data |-> JsonObject(Null, Null)]}
Statuses == {201, 400, 502}

FetchOutcomes ==
    {[kind |-> "rejected", isError |-> TRUE, message |-> "fetch failed"]}
    \cup {[kind |-> "response", status |-> st, body |-> b] : st \in Statuses, b \in Bodies}

GetTicketsResults ==
    {[kind |-> "rejected"],
     [kind |-> "result", success |-> FALSE, total |-> 0],
     [kind |-> "result", success |-> TRUE, total |-> 0],
     [kind |-> "result", success |-> TRUE, total |-> 2]}


\* ------------------------------------------------------------------------
\* Actions of the renderer and of the submit-ticket handler
\* ------------------------------------------------------------------------

RemoveAt(q, i) == SubSeq(q, 1, i - 1) \o SubSeq(q, i + 1, Len(q))

counters == <<clicks, submits, posts>>
page == <<locale, deviceContext, userEmail, health, mainStatus, ticketsList, emailLookup>>
badgeVars == <<ticketCalls, badge, badgeLatest>>

\* The user fills in or changes the form.
UserEditsForm ==
    /\ form' \in Forms
    /\ form' # form
    /\ UNCHANGED <<view, disabled, toast, timers, calls, successRef>>
    /\ UNCHANGED <<page, badgeVars, counters, probeVars>>

\* The click listener of btn-submit, up to its await.  A disabled button
\* dispatches no click event.
ClickSubmit ==
    /\ ~disabled
    /\ clicks < MaxClicks
    /\ clicks' = clicks + 1
    /\ IF validateEmailForm(form)
       THEN /\ toast' = hideToast(toast)
            /\ disabled' = setLoading(TRUE)
            /\ calls' = Append(calls, [stage |-> "invoked",
                                       ticket |-> TicketData(form, userEmail)])
            /\ submits' = submits + 1
            /\ UNCHANGED timers
       ELSE /\ toast' = showToast(Translations(locale).toastFillFields)
            /\ timers' = timers + 1
            /\ UNCHANGED <<disabled, calls, submits>>
    /\ UNCHANGED <<view, form, successRef, posts>>
    /\ UNCHANGED <<page, badgeVars, probeVars>>

\* The handler runs in the main process and sends the POST.
HandlerPosts(i) ==
    /\ calls[i].stage = "invoked"
    /\ calls' = [calls EXCEPT ![i].stage = "fetching"]
    /\ posts' = posts + 1
    /\ UNCHANGED <<view, form, disabled, toast, timers, successRef, clicks, submits>>
    /\ UNCHANGED <<page, badgeVars, probeVars>>

\* The handler with a retry: after a fetch that got no response it posts again.
HandlerReturns_retries(i, o) ==
    /\ calls[i].stage = "fetching"
    /\ IF o.kind = "rejected"
       THEN posts' = posts + 1 /\ UNCHANGED <<calls, clicks, submits>>
       ELSE /\ calls' = [calls EXCEPT ![i] = [stage |-> "returned", ticket |-> calls[i].ticket,
                                             outcome |-> o, result |-> submitTicketHandler(o)]]
            /\ UNCHANGED counters
    /\ UNCHANGED <<view, form, disabled, toast, timers, successRef>>
    /\ UNCHANGED <<page, badgeVars, probeVars>>

\* The fetch settles with outcome o and the handler returns.
HandlerReturns(i, o) ==
    /\ calls[i].stage = "fetching"
    /\ calls' = [calls EXCEPT ![i] = [stage |-> "returned", ticket |-> calls[i].ticket,
                                      outcome |-> o, result |-> submitTicketHandler(o)]]
    /\ UNCHANGED <<view, form, disabled, toast, timers, successRef>>
    /\ UNCHANGED <<page, badgeVars, counters, probeVars>>

\* updateTicketCountBadge(), up to its await, the user-email element
\* holding emailText
BadgeRefreshStartsFor(emailText) ==
    IF getUserEmail(emailText) = <<>> \/ ~HasAtSign(getUserEmail(emailText))
    THEN badge' = [badge EXCEPT !.shown = FALSE] /\ UNCHANGED <<ticketCalls, badgeLatest>>
    ELSE /\ ticketCalls' = ticketCalls + 1
         /\ badgeLatest' = [stage |-> "flight"]
         /\ UNCHANGED badge

BadgeRefreshStarts == BadgeRefreshStartsFor(userEmail)

\* The listener with setLoading(false) at the end of the try block and no
\* finally block: an error thrown inside the try block skips it.
SubmitResumes_noFinally(i) ==
    /\ calls[i].stage = "returned"
    /\ LET result == calls[i].result
           t == Translations(locale)
       IN IF result.success /\ ~IsNull(result.data) /\ Val(result.data).kind # "null"
          THEN IF IsNull(Val(result.data).ticket)
               THEN /\ toast' = showToast(t.toastConnectionError)
                    /\ timers' = timers + 1
                    /\ UNCHANGED <<successRef, view, badgeVars, disabled>>
               ELSE /\ successRef' = <<"Reference: ">> \o RefCode(Val(Val(result.data).ticket))
                    /\ BadgeRefreshStarts
                    /\ view' = "email-success"
                    /\ disabled' = setLoading(FALSE)
                    /\ UNCHANGED <<toast, timers>>
          ELSE /\ toast' = showToast(OrElse(result.error, t.toastSubmitFailed))
               /\ timers' = timers + 1
               /\ disabled' = setLoading(FALSE)
               /\ UNCHANGED <<successRef, view, badgeVars>>
    /\ calls' = RemoveAt(calls, i)
    /\ UNCHANGED <<form, page, counters, probeVars>>

\* The click listener of btn-submit after its await: try, catch, finally.
\* Reading result.data.ticket.id of a body without a ticket throws a
\* TypeError inside the try block.
SubmitResumes(i) ==
    /\ calls[i].stage = "returned"
    /\ LET result == calls[i].result
           t == Translations(locale)
       IN IF result.success /\ ~IsNull(result.data) /\ Val(result.data).kind # "null"
          THEN IF IsNull(Val(result.data).ticket)
               THEN /\ toast' = showToast(t.toastConnectionError)
                    /\ timers' = timers + 1
                    /\ UNCHANGED <<successRef, view, badgeVars>>
               ELSE /\ successRef' = <<"Reference: ">> \o RefCode(Val(Val(result.data).ticket))
                    /\ BadgeRefreshStarts
                    /\ view' = "email-success"
                    /\ UNCHANGED <<toast, timers>>
          ELSE /\ toast' = showToast(OrElse(result.error, t.toastSubmitFailed))
               /\ timers' = timers + 1
               /\ UNCHANGED <<successRef, view, badgeVars>>
    /\ disabled' = setLoading(FALSE)
    /\ calls' = RemoveAt(calls, i)
    /\ UNCHANGED <<form, page, counters, probeVars>>

\* A setTimeout(hideToast, 5000) callback runs.
ToastTimerFires ==
    /\ timers > 0
    /\ timers' = timers - 1
    /\ toast' = hideToast(toast)
    /\ UNCHANGED <<view, form, disabled, calls, successRef>>
    /\ UNCHANGED <<page, badgeVars, counters, probeVars>>

\* result.data.total of a getTickets answer that passes the test
\* result.success && result.data; Null for any other answer
TotalOf(r) == IF r.kind = "result" /\ r.success THEN Some(r.total) ELSE Null

\* updateTicketCountBadge() after its await: the answer r belongs to the
\* call issued last or to one issued before it.
BadgeRefreshSettles(r) ==
    /\ ticketCalls > 0
    /\ ticketCalls' = ticketCalls - 1
    /\ \/ /\ badgeLatest.stage = "flight"
          /\ badgeLatest' = [stage |-> "settled", total |-> TotalOf(r)]
       \/ /\ ticketCalls > (IF badgeLatest.stage = "flight" THEN 1 ELSE 0)
          /\ UNCHANGED badgeLatest
    /\ badge' = IF r.kind = "rejected" THEN [badge EXCEPT !.shown = FALSE]
                ELSE IF r.success
                THEN IF r.total > 0
                     THEN [shown |-> TRUE, text |-> NatToString(r.total)]
                     ELSE [badge EXCEPT !.shown = FALSE]
                ELSE badge
    /\ UNCHANGED <<view, form, disabled, toast, timers, calls, successRef>>
    /\ UNCHANGED <<page, counters, probeVars>>

\* init(): deviceContext && !deviceContext.domain && deviceContext.ninjaDeviceId
NeedsEmailLookup(dc) ==
    /\ ~IsNull(dc)
    /\ IsNull(Val(dc).domain) \/ Val(Val(dc).domain) = <<>>
    /\ ~IsNull(Val(dc).ninjaDeviceId) /\ Val(Val(dc).ninjaDeviceId) # 0

\* result.success && result.email
EmailResolved(r) ==
    r.kind = "result" /\ r.success /\ ~IsNull(r.email) /\ Val(r.email) # <<>>

\* resolveUserEmail() writing whatever email the answer carries, successful
\* or not
EmailLookupSettles_ignoresSuccess(r) ==
    /\ emailLookup.stage = "pending"
    /\ emailLookup' = [stage |-> "done", result |-> r]
    /\ IF r.kind = "result" /\ ~IsNull(r.email) /\ Val(r.email) # <<>>
       THEN userEmail' = Val(r.email) /\ BadgeRefreshStartsFor(Val(r.email))
       ELSE UNCHANGED <<userEmail, badgeVars>>
    /\ UNCHANGED <<view, form, disabled, toast, timers, calls, successRef>>
    /\ UNCHANGED <<locale, deviceContext, health, mainStatus, ticketsList, counters, probeVars>>

\* resolveUserEmail() after its await: the lookup settled with r.  A
\* rejection is caught and logged to the console.
EmailLookupSettles(r) ==
    /\ emailLookup.stage = "pending"
    /\ emailLookup' = [stage |-> "done", result |-> r]
    /\ IF EmailResolved(r)
       THEN userEmail' = Val(r.email) /\ BadgeRefreshStartsFor(Val(r.email))
       ELSE UNCHANGED <<userEmail, badgeVars>>
    /\ UNCHANGED <<view, form, disabled, toast, timers, calls, successRef>>
    /\ UNCHANGED <<locale, deviceContext, health, mainStatus, ticketsList, counters, probeVars>>

\* btn-new-ticket: resetEmailForm(), showView('email')
ClickNewTicket ==
    /\ view = "email-success"
    /\ form' = EmptyForm
    /\ view' = "email"
    /\ UNCHANGED <<disabled, toast, timers, calls, successRef>>
    /\ UNCHANGED <<page, badgeVars, counters, probeVars>>

\* ------------------------------------------------------------------------
\* The connectivity check of the renderer
\* ------------------------------------------------------------------------

updateMainStatus(state, device) == [offline |-> state = "offline", device |-> device]

\* deviceContext?.computerName || '—'
ComputerNameOrDash(dc) ==
    IF IsNull(dc) \/ Val(dc).computerName = <<>> THEN <<"EMDASH">> ELSE Val(dc).computerName

ServerErrorFirst == 500

\* How the GET of the health URL can settle: with a response, with a
\* rejection (no connection), or aborted by AbortSignal.timeout(5000).
HealthOutcomes ==
    {[kind |-> "response", status |-> st] : st \in {200, 404, 499, 500, 503}}
    \cup {[kind |-> "rejected"], [kind |-> "aborted"]}

\* checkApiConnection() counting only the 2xx answers as reachable
checkApiConnectionSettled_okOnly(o, dc) ==
    IF o.kind = "response" /\ ResponseOk(o.status)
    THEN updateMainStatus("connected", ComputerNameOrDash(dc))
    ELSE IF ~IsNull(dc)
    THEN updateMainStatus("connected", Val(dc).computerName)
    ELSE updateMainStatus("offline", <<"EMDASH">>)

\* checkApiConnection() showing offline after a failed check, loaded device
\* context or not
checkApiConnectionSettled_offlineOnFailure(o, dc) ==
    IF o.kind = "response" /\ o.status < ServerErrorFirst
    THEN updateMainStatus("connected", ComputerNameOrDash(dc))
    ELSE updateMainStatus("offline", <<"EMDASH">>)

\* checkApiConnection() from the point where its fetch has settled with o
checkApiConnectionSettled(o, dc) ==
    IF o.kind = "response" /\ o.status < ServerErrorFirst
    THEN updateMainStatus("connected", ComputerNameOrDash(dc))
    ELSE IF ~IsNull(dc)
    THEN updateMainStatus("connected", Val(dc).computerName)
    ELSE updateMainStatus("offline", <<"EMDASH">>)

statusVars == <<locale, deviceContext, userEmail, ticketsList, emailLookup>>

\* A URL is text whose first token is the origin ("https://host") and whose
\* other tokens are the characters of the path.
DefaultApiBaseUrl == <<"https://api.alphora.com", "/", "a", "p", "i">>

\* ipcMain.handle('get-config'): process.env.ATLAS_API_URL || the default;
\* env is Null when the variable is not set.
getConfig(env) ==
    [apiBaseUrl |-> IF IsNull(env) \/ Val(env) = <<>> THEN DefaultApiBaseUrl ELSE Val(env)]

EndsWith(s, suffix) ==
    Len(s) >= Len(suffix) /\ SubSeq(s, Len(s) - Len(suffix) + 1, Len(s)) = suffix

\* apiBaseUrl.replace(/\/api\/?$/, '/health'): the pattern matches "/api" or
\* "/api/" at the end of the text; text it does not match is left as it is.
healthUrl(apiBaseUrl) ==
    IF EndsWith(apiBaseUrl, <<"/", "a", "p", "i", "/">>)
    THEN SubSeq(apiBaseUrl, 1, Len(apiBaseUrl) - 5) \o <<"/", "h", "e", "a", "l", "t", "h">>
    ELSE IF EndsWith(apiBaseUrl, <<"/", "a", "p", "i">>)
    THEN SubSeq(apiBaseUrl, 1, Len(apiBaseUrl) - 4) \o <<"/", "h", "e", "a", "l", "t", "h">>
    ELSE apiBaseUrl

\* get-config answers and checkApiConnection() sends the GET.
ConfigReturns(env) ==
    /\ health.stage = "config"
    /\ health' = [stage |-> "fetching", apiBaseUrl |-> getConfig(env).apiBaseUrl,
                  url |-> healthUrl(getConfig(env).apiBaseUrl)]
    /\ UNCHANGED <<view, form, disabled, toast, timers, calls, successRef, mainStatus>>
    /\ UNCHANGED <<statusVars, badgeVars, counters, probeVars>>

\* The GET settles before the timeout: the server answered or the
\* connection failed.
HealthSettles(o) ==
    /\ health.stage = "fetching"
    /\ o.kind # "aborted"
    /\ health' = [stage |-> "done", outcome |-> o]
    /\ mainStatus' = checkApiConnectionSettled(o, deviceContext)
    /\ UNCHANGED <<view, form, disabled, toast, timers, calls, successRef>>
    /\ UNCHANGED <<statusVars, badgeVars, counters, probeVars>>

\* The timer of AbortSignal.timeout(5000) fires and the fetch rejects.
HealthTimesOut ==
    /\ health.stage = "fetching"
    /\ health' = [stage |-> "done", outcome |-> [kind |-> "aborted"]]
    /\ mainStatus' = checkApiConnectionSettled([kind |-> "aborted"], deviceContext)
    /\ UNCHANGED <<view, form, disabled, toast, timers, calls, successRef>>
    /\ UNCHANGED <<statusVars, badgeVars, counters, probeVars>>

\* ------------------------------------------------------------------------
\* Specifications
\* ------------------------------------------------------------------------

\* No call of the settings store was made, and no settings file written.
StoreUntouched ==
    /\ settingsFile = [kind |-> "absent"]
    /\ settingsOut = [op |-> "none"]

\* The renderer before init() has run.
RendererNotStarted ==
    /\ locale = "en"
    /\ deviceContext = Null
    /\ userEmail = <<>>
    /\ view = "main"
    /\ form = EmptyForm
    /\ disabled = FALSE
    /\ toast = [shown |-> FALSE, message |-> ""]
    /\ timers = 0
    /\ calls = <<>>
    /\ ticketCalls = 0
    /\ badge = [shown |-> FALSE, text |-> <<>>]
    /\ successRef = <<>>
    /\ clicks = 0
    /\ submits = 0
    /\ posts = 0
    /\ health = [stage |-> "idle"]
    /\ mainStatus = [offline |-> FALSE, device |-> <<"EMDASH">>]
    /\ ticketsList = [state |-> "hidden", cards |-> <<>>]
    /\ emailLookup = [stage |-> "none"]
    /\ badgeLatest = [stage |-> "none"]

InitCollect ==
    /\ platform \in Platforms
    /\ machine \in MachinesOf(platform)
    /\ ctx = NotCollected
    /\ snapshots = <<>>
    /\ StoreUntouched
    /\ agentProbe = NoProbe
    /\ RendererNotStarted

NextCollect == GetDeviceContext

\* The aggregator on every machine.
SpecCollect == InitCollect /\ [][NextCollect]_vars

\* Every listing of network interfaces, the other probes finding nothing.
InitNet ==
    /\ platform \in Platforms
    /\ machine \in {[BareMachine EXCEPT !.interfaces = l] : l \in InterfaceListings}
    /\ ctx = NotCollected
    /\ snapshots = <<>>
    /\ StoreUntouched
    /\ agentProbe = NoProbe
    /\ RendererNotStarted

SpecNet == InitNet /\ [][NextCollect]_vars

\* Every outcome of the disk utility, the other probes finding nothing.
InitDisk ==
    /\ platform \in Platforms
    /\ machine \in
         {BareMachine, [BareMachine EXCEPT !.wmicDisk = Ok(<<>>), !.df = Ok(<<>>)]}
         \cup {[BareMachine EXCEPT !.wmicDisk = Ok(WmicDiskOutput(row)),
                                   !.df = Ok(DfOutput(row))] : row \in DiskRows}
    /\ ctx = NotCollected
    /\ snapshots = <<>>
    /\ StoreUntouched
    /\ agentProbe = NoProbe
    /\ RendererNotStarted

SpecDisk == InitDisk /\ [][NextCollect]_vars

\* Two machines the widget runs on: a domain-joined PC and a Mac.
DomainPc ==
    [BareMachine EXCEPT
        !.echoDomain = Ok(<<"C", "O", "R", "P">> \o Crlf),
        !.interfaces = << <<Nic.lo4>>, <<Nic.eth6, Nic.eth4>> >>]
Mac ==
    [BareMachine EXCEPT
        !.ninjaConf = <<Ok(<<"{", "\"device_id\"", ":", " ", "4", "2", ",", "}">>), Throws>>,
        !.interfaces = << <<Nic.lo4>>, <<Nic.wifi4>> >>]

\* The renderer once init() has run: the device context was loaded from the
\* main process, or the call failed, and the first badge refresh is under way.
RendererStarted ==
    /\ ctx = collectDeviceContext(platform, machine)
    /\ snapshots = <<[machine |-> machine, value |-> ctx]>>
    /\ StoreUntouched
    /\ agentProbe = NoProbe
    /\ locale \in {"en", "de"}
    /\ deviceContext = IF ctx.status = "ok" THEN Some(ctx.value) ELSE Null
    /\ userEmail = PopulatedEmail(deviceContext)
    /\ view = "main"
    /\ form = EmptyForm
    /\ disabled = FALSE
    /\ toast = [shown |-> FALSE, message |-> ""]
    /\ timers = 0
    /\ calls = <<>>
    /\ ticketCalls = IF HasAtSign(getUserEmail(userEmail)) THEN 1 ELSE 0
    /\ badge = [shown |-> FALSE, text |-> <<>>]
    /\ successRef = <<>>
    /\ clicks = 0
    /\ submits = 0
    /\ posts = 0
    /\ health = [stage |-> "config"]
    /\ mainStatus = IF IsNull(deviceContext)
                    THEN updateMainStatus("offline", <<"EMDASH">>)
                    ELSE updateMainStatus("connected", Val(deviceContext).computerName)
    /\ ticketsList = [state |-> "hidden", cards |-> <<>>]
    /\ emailLookup = IF NeedsEmailLookup(deviceContext)
                     THEN [stage |-> "pending", id |-> Val(Val(deviceContext).ninjaDeviceId)]
                     ELSE [stage |-> "none"]
    /\ badgeLatest = IF ticketCalls = 1 THEN [stage |-> "flight"] ELSE [stage |-> "none"]

InitSubmit ==
    /\ \/ platform = "win32" /\ machine = DomainPc
       \/ platform = "darwin" /\ machine = Mac
       \/ platform = "linux" /\ machine = [BareMachine EXCEPT !.osThrows = "userInfo"]
    /\ RendererStarted

NextSubmit ==
    \/ UserEditsForm
    \/ ClickSubmit
    \/ \E i \in 1..Len(calls) : HandlerPosts(i)
    \/ \E i \in 1..Len(calls) : \E o \in FetchOutcomes : HandlerReturns(i, o)
    \/ \E i \in 1..Len(calls) : SubmitResumes(i)
    \/ ToastTimerFires
    \/ \E r \in GetTicketsResults : BadgeRefreshSettles(r)
    \/ ClickNewTicket

SpecSubmit == InitSubmit /\ [][NextSubmit]_vars


\* ------------------------------------------------------------------------
\* A remote-agent probe followed location by location
\* ------------------------------------------------------------------------

AgentProbes == {"ninja", "tvId", "tvVersion"}

\* What each candidate location of a probe yields, in the order in which
\* the source lists the locations.
Locations(name, plat, m) ==
    IF plat = "win32"
    THEN CASE name = "ninja" -> <<NinjaFromRegistry(m.regNinja)>>
           [] name = "tvId" -> [i \in 1..Len(m.regTvId) |-> TvIdFromRegistry(m.regTvId[i])]
           [] name = "tvVersion" ->
                  [i \in 1..Len(m.regTvVersion) |-> TvVersionFromRegistry(m.regTvVersion[i])]
    ELSE IF plat = "darwin"
    THEN CASE name = "ninja" -> [i \in 1..Len(m.ninjaConf) |-> NinjaFromConf(m.ninjaConf[i])]
           [] name = "tvId" ->
                  [i \in 1..Len(m.defaultsTvId) |-> TvIdFromDefaults(m.defaultsTvId[i])]
                  \o <<TvIdFromGlobalConf(m.tvGlobalConf)>>
           [] name = "tvVersion" -> <<TvVersionFromDefaults(m.defaultsTvVersion)>>
    ELSE <<>>

\* The probe with a loop that does not leave on the first value
ReadLocation_keepsGoing ==
    /\ agentProbe.name \in AgentProbes
    /\ ~agentProbe.done
    /\ LET locs == Locations(agentProbe.name, platform, machine)
           i == Len(agentProbe.reads) + 1
       IN /\ i <= Len(locs)
          /\ agentProbe' =
                [agentProbe EXCEPT !.reads = Append(@, i),
                                   !.result = IF IsNull(locs[i]) THEN @ ELSE locs[i]]
    /\ UNCHANGED <<platform, machine, ctx, snapshots, storeVars, rendererVars>>

\* The probe reads its next location; a value found there is returned.
ReadLocation ==
    /\ agentProbe.name \in AgentProbes
    /\ ~agentProbe.done
    /\ LET locs == Locations(agentProbe.name, platform, machine)
           i == Len(agentProbe.reads) + 1
       IN /\ i <= Len(locs)
          /\ agentProbe' =
                [agentProbe EXCEPT !.reads = Append(@, i),
                                   !.result = locs[i],
                                   !.done = ~IsNull(locs[i])]
    /\ UNCHANGED <<platform, machine, ctx, snapshots, storeVars, rendererVars>>

\* No location is left: the probe returns null.
ProbeReturnsNull ==
    /\ agentProbe.name \in AgentProbes
    /\ ~agentProbe.done
    /\ Len(agentProbe.reads) = Len(Locations(agentProbe.name, platform, machine))
    /\ agentProbe' = [agentProbe EXCEPT !.result = Null, !.done = TRUE]
    /\ UNCHANGED <<platform, machine, ctx, snapshots, storeVars, rendererVars>>

\* Machines with every combination of agent installations, two
\* installations holding different values.
AgentMachines(plat) ==
    IF plat = "win32"
    THEN {[BareMachine EXCEPT !.regNinja = n, !.regTvId = <<i1, i2>>,
                              !.regTvVersion = <<v1, v2>>] :
            n \in NinjaRegOutputs,
            i1 \in TvIdRegOutputs,
            i2 \in {Throws, Ok(<<"ClientID", " ", "REG_DWORD", " ", "0x", "1", "F">>)},
            v1 \in TvVersionRegOutputs,
            v2 \in {Throws, Ok(<<"Version", " ", "REG_SZ", " ", "1", "4", ".", "7">>)}}
    ELSE IF plat = "darwin"
    THEN {[BareMachine EXCEPT !.ninjaConf = <<n1, n2>>, !.defaultsTvId = <<i1, i2>>,
                              !.tvGlobalConf = g, !.defaultsTvVersion = v] :
            n1 \in NinjaConfOutputs,
            n2 \in {Throws, Ok(<<"\"device_id\"", ":", "7">>)},
            i1 \in TvIdDefaultsOutputs \cup {Ok(<<"n", "/", "a", "\n">>)},
            i2 \in {Throws, Ok(<<"4", "2", "\n">>)},
            g \in TvGlobalConfOutputs, v \in TvVersionDefaultsOutputs}
    ELSE {BareMachine}

InitAgents ==
    /\ platform \in Platforms
    /\ machine \in AgentMachines(platform)
    /\ ctx = NotCollected
    /\ snapshots = <<>>
    /\ StoreUntouched
    /\ agentProbe \in {[name |-> n, reads |-> <<>>, result |-> Null, done |-> FALSE] :
                         n \in AgentProbes}
    /\ RendererNotStarted

NextAgents == ReadLocation \/ ProbeReturnsNull

SpecAgents == InitAgents /\ [][NextAgents]_vars

\* ------------------------------------------------------------------------
\* The tickets view of the renderer
\* ------------------------------------------------------------------------

MaxTickets == 2

\* The card's code without the conversion to upper case
TicketCardRefCode_asIs(id) ==
    <<"ATLAS-">> \o SubSeq(id, 1, IF Len(id) < 8 THEN Len(id) ELSE 8)

\* `ATLAS-${ticket.id.substring(0, 8).toUpperCase()}`
TicketCardRefCode(id) ==
    <<"ATLAS-">> \o toUpperCase(SubSeq(id, 1, IF Len(id) < 8 THEN Len(id) ELSE 8))

\* Ticket ids the backend assigns: hexadecimal digits and dashes.
TicketIds ==
    {TicketId, <<"1", "f">>, <<"0", "a", "1", "b", "2", "c", "3", "d">>,
     <<"d", "e", "a", "d", "b", "e", "e", "f", "0">>}

\* What getTickets(email) can give the tickets view.
TicketsResults ==
    {[kind |-> "rejected"], [kind |-> "result", success |-> FALSE, tickets |-> <<>>]}
    \cup {[kind |-> "result", success |-> TRUE, tickets |-> ids] :
            ids \in SeqsUpTo(TicketIds, MaxTickets)}

\* A 201 answer for each ticket id.
TicketOutcomes ==
    {[kind |-> "response", status |-> 201,
      body |-> [json |-> TRUE, data |-> JsonObject(Null, Some(id))]] : id \in TicketIds}

\* The click listener of action-tickets: renderTicketsList() up to its
\* await, then showView('tickets').
ClickTickets ==
    /\ view = "main"
    /\ view' = "tickets"
    /\ ticketsList' =
          IF HasAtSign(getUserEmail(userEmail))
          THEN [state |-> "loading", cards |-> <<>>]
          ELSE [ticketsList EXCEPT !.state = "empty"]
    /\ UNCHANGED <<form, disabled, toast, timers, calls, successRef, health, mainStatus>>
    /\ UNCHANGED <<locale, deviceContext, userEmail, emailLookup, badgeVars, counters, probeVars>>

\* renderTicketsList() after its await
TicketsListSettles(r) ==
    /\ ticketsList.state = "loading"
    /\ ticketsList' =
          IF r.kind = "rejected" \/ ~r.success \/ r.tickets = <<>>
          THEN [ticketsList EXCEPT !.state = "empty"]
          ELSE [state |-> "list",
                cards |-> [k \in 1..Len(r.tickets) |->
                             [id |-> r.tickets[k], refCode |-> TicketCardRefCode(r.tickets[k])]]]
    /\ UNCHANGED <<view, form, disabled, toast, timers, calls, successRef, health, mainStatus>>
    /\ UNCHANGED <<locale, deviceContext, userEmail, emailLookup, badgeVars, counters, probeVars>>

NextTickets ==
    \/ UserEditsForm
    \/ ClickSubmit
    \/ \E i \in 1..Len(calls) : HandlerPosts(i)
    \/ \E i \in 1..Len(calls) : \E o \in TicketOutcomes : HandlerReturns(i, o)
    \/ \E i \in 1..Len(calls) : SubmitResumes(i)
    \/ ClickTickets
    \/ \E r \in TicketsResults : TicketsListSettles(r)

\* Submissions the backend accepts, and the tickets view.
SpecTickets == InitSubmit /\ [][NextTickets]_vars

\* ------------------------------------------------------------------------
\* Machines that differ from the bare machine in what one probe reads
\* ------------------------------------------------------------------------

MaxDays == 2

\* reg.exe prints a REG_DWORD in hexadecimal, here in either case.
RECURSIVE ToHex(_, _)
ToHex(n, digits) ==
    IF n < 16 THEN <<digits[n + 1]>>
    ELSE ToHex(n \div 16, digits) \o <<digits[(n % 16) + 1]>>
UpperHex == <<"0", "1", "2", "3", "4", "5", "6", "7", "8", "9", "A", "B", "C", "D", "E", "F">>
LowerHex == <<"0", "1", "2", "3", "4", "5", "6", "7", "8", "9", "a", "b", "c", "d", "e", "f">>

\* Output of reg query "<key>" /v <name>: the key, then the value's line.
RegQueryOutput(name, type, value) ==
    Ok(Crlf \o <<"H", "K", "L", "M">> \o Crlf
       \o <<" ", " ", name, " ", " ", type, " ", " ">> \o value \o Crlf \o Crlf)

Ids == {0, 7, 42, 255, 999, 1000, 6699, 12345, 123456, 1234567, 1234567890}

\* Registry answers for DeviceId in neither encoding.
OtherDeviceIdOutputs ==
    {Throws, Ok(<<>>), Ok(Crlf),
     RegQueryOutput("DeviceId", "REG_DWORD", <<"1", "A", "2", "B">>),
     RegQueryOutput("DeviceId", "REG_QWORD", <<"0x", "1", "A", "2", "B">>),
     RegQueryOutput("DeviceId", "REG_SZ", <<>>),
     RegQueryOutput("DeviceId", "REG_SZ", <<"n", "/", "a">>),
     RegQueryOutput("DeviceId", "REG_BINARY", <<"1", "2", "3", "4", "5">>),
     RegQueryOutput("NodeId", "REG_SZ", <<"1", "2", "3", "4", "5">>)}

\* REG_SZ values that begin with decimal digits and go on otherwise, each
\* with the number its leading digits denote.
DigitPrefixedOutputs ==
    (RegQueryOutput("DeviceId", "REG_SZ", <<"1", "2", "a", "b", "c">>) :> 12)
    @@ (RegQueryOutput("DeviceId", "REG_SZ", <<"0", "x", "1", "A", "2", "B">>) :> 0)

\* Numeric TeamViewer ids as the darwin sources hold them.
IdTexts ==
    {NatToString(v) : v \in Ids} \cup {<<"0", "0", "7">>, <<"0", "1", "2", "3", "4">>}

Uptimes ==
    {d * SecondsPerDay + h * SecondsPerHour + m * SecondsPerMinute + sec :
        d \in 0..MaxDays, h \in {0, 1, 23}, m \in {0, 1, 59}, sec \in {0, 59}}

DomainValues ==
    {Unexpanded, <<>>, <<"C", "O", "R", "P">>, <<"A", "D", "-", "0", "1">>,
     <<"%", "U", "S", "E", "R", "%">>}

ProbeMachines ==
    {[BareMachine EXCEPT !.regNinja = RegQueryOutput("DeviceId", "REG_DWORD", <<"0x">> \o ToHex(v, hex))] :
        v \in Ids, hex \in {UpperHex, LowerHex}}
    \cup {[BareMachine EXCEPT !.regNinja = RegQueryOutput("DeviceId", "REG_SZ", NatToString(v))] :
            v \in Ids}
    \cup {[BareMachine EXCEPT !.regNinja = o] :
            o \in OtherDeviceIdOutputs \cup DOMAIN DigitPrefixedOutputs}
    \cup {[BareMachine EXCEPT
             !.regTvId = <<RegQueryOutput("ClientID", "REG_DWORD", <<"0x">> \o ToHex(v, LowerHex)),
                           Throws>>] : v \in Ids}
    \cup {[BareMachine EXCEPT !.defaultsTvId = <<Throws, Ok(t \o <<"\n">>)>>] : t \in IdTexts}
    \cup {[BareMachine EXCEPT
             !.tvGlobalConf = Ok(<<"[int32]", " ", "ClientID", " ", "=", " ">> \o t \o <<"\n">>)] :
            t \in IdTexts}
    \cup {[BareMachine EXCEPT !.uptime = u] : u \in Uptimes}
    \cup {[BareMachine EXCEPT !.echoDomain = Ok(pad \o v \o pad \o Crlf)] :
            v \in DomainValues, pad \in {<<>>, <<" ">>}}

InitProbe ==
    /\ platform \in Platforms
    /\ machine \in ProbeMachines
    /\ ctx = NotCollected
    /\ snapshots = <<>>
    /\ StoreUntouched
    /\ agentProbe = NoProbe
    /\ RendererNotStarted

SpecProbe == InitProbe /\ [][NextCollect]_vars

\* The connectivity check once init() has run, while the user fills in the
\* form.
NextHealth ==
    \/ ConfigReturns(Null)
    \/ \E o \in HealthOutcomes : HealthSettles(o)
    \/ HealthTimesOut
    \/ UserEditsForm

SpecHealth == InitSubmit /\ [][NextHealth]_vars

\* Values of ATLAS_API_URL: not set, empty, the documented ones, with a
\* closing slash, and base URLs that do not end in /api.
ApiUrlSettings ==
    {Null, Some(<<>>),
     Some(<<"http://localhost:3000", "/", "a", "p", "i">>),
     Some(<<"https://api.alphora.com", "/", "a", "p", "i", "/">>),
     Some(<<"https://atlas.example.com", "/", "v", "1", "/", "a", "p", "i">>),
     Some(<<"http://localhost:3000">>),
     Some(<<"https://atlas.example.com", "/", "a", "p", "i", "/", "v", "1">>),
     Some(<<"https://atlas.example.com", "/", "m", "y", "a", "p", "i">>)}

NextConfig ==
    \/ \E env \in ApiUrlSettings : ConfigReturns(env)
    \/ \E o \in HealthOutcomes : HealthSettles(o)
    \/ HealthTimesOut
    \/ UserEditsForm

\* The connectivity check under every setting of the API base URL.
SpecConfig == InitSubmit /\ [][NextConfig]_vars

\* Submissions from click to the end of the listener, under what the
\* runtime guarantees: the handler runs and posts, and a settled call
\* resumes its listener.
NextSettle ==
    \/ UserEditsForm
    \/ ClickSubmit
    \/ \E i \in 1..Len(calls) : HandlerPosts(i)
    \/ \E i \in 1..Len(calls) : \E o \in FetchOutcomes : HandlerReturns(i, o)
    \/ \E i \in 1..Len(calls) : SubmitResumes(i)

SubmitScheduling ==
    /\ WF_vars(\E i \in 1..Len(calls) : HandlerPosts(i))
    /\ WF_vars(\E i \in 1..Len(calls) : SubmitResumes(i))

SpecSettle == InitSubmit /\ [][NextSettle]_vars /\ SubmitScheduling

\* Machines with and without a domain, with and without a NinjaOne agent,
\* and one on which the collection fails.
EmailMachines ==
    {<<"darwin", Mac>>,
     <<"darwin", [Mac EXCEPT !.ninjaConf = <<Throws, Throws>>]>>,
     <<"win32", DomainPc>>,
     <<"win32", [DomainPc EXCEPT
                   !.regNinja = RegQueryOutput("DeviceId", "REG_DWORD", <<"0x", "1", "A", "2", "B">>)]>>,
     <<"win32", [BareMachine EXCEPT
                   !.regNinja = RegQueryOutput("DeviceId", "REG_SZ", <<"1", "2", "3", "4", "5">>)]>>,
     <<"linux", [BareMachine EXCEPT !.osThrows = "userInfo"]>>}

\* What resolveEmail(id) can give: a rejection, or a ResolveEmailResult.
ResolvedEmail == <<"a", "d", "a", "@", "c", "o", "r", "p", ".", "e", "x", "a", "m", "p", "l", "e">>
LookupResults ==
    {[kind |-> "rejected"]}
    \cup {[kind |-> "result", success |-> ok, email |-> e] :
            ok \in BOOLEAN, e \in {Null, Some(<<>>), Some(ResolvedEmail)}}

InitEmail ==
    /\ \E pm \in EmailMachines : platform = pm[1] /\ machine = pm[2]
    /\ RendererStarted

NextEmail ==
    \/ \E r \in LookupResults : EmailLookupSettles(r)
    \/ UserEditsForm
    \/ ClickSubmit
    \/ \E i \in 1..Len(calls) : HandlerPosts(i)
    \/ \E i \in 1..Len(calls) : \E o \in TicketOutcomes : HandlerReturns(i, o)
    \/ \E i \in 1..Len(calls) : SubmitResumes(i)

\* The email lookup of init() and the submissions around it.
SpecEmail == InitEmail /\ [][NextEmail]_vars

\* Submission and connectivity check together.  What the runtime
\* guarantees to happen: the handler runs and posts, a settled call resumes
\* its listener, get-config answers, and timers fire.  That the server
\* answers a request is not guaranteed.
NextLive ==
    \/ ClickSubmit
    \/ \E i \in 1..Len(calls) : HandlerPosts(i)
    \/ \E i \in 1..Len(calls) : \E o \in FetchOutcomes : HandlerReturns(i, o)
    \/ \E i \in 1..Len(calls) : SubmitResumes(i)
    \/ ToastTimerFires
    \/ \E r \in GetTicketsResults : BadgeRefreshSettles(r)
    \/ ConfigReturns(Null)
    \/ \E o \in HealthOutcomes : HealthSettles(o)
    \/ HealthTimesOut
    \/ UserEditsForm

Scheduling ==
    /\ WF_vars(\E i \in 1..Len(calls) : HandlerPosts(i))
    /\ WF_vars(\E i \in 1..Len(calls) : SubmitResumes(i))
    /\ WF_vars(ToastTimerFires)
    /\ WF_vars(ConfigReturns(Null))
    /\ WF_vars(HealthTimesOut)

SpecLive == InitSubmit /\ [][NextLive]_vars /\ Scheduling

\* Machine states between which a machine moves while the widget runs: it
\* joins a network, its uptime grows, an agent is installed, a call of the
\* os module starts to fail.
RecollectMachines ==
    {BareMachine, DomainPc, Mac,
     [BareMachine EXCEPT !.uptime = SecondsPerHour],
     [BareMachine EXCEPT !.interfaces = << <<Nic.lo4>>, <<Nic.eth4>> >>],
     [BareMachine EXCEPT !.osThrows = "userInfo"]}

\* The machine's state changes between two collections.
MachineChanges ==
    /\ machine' \in RecollectMachines
    /\ machine' # machine
    /\ UNCHANGED <<platform, ctx, agentProbe, snapshots, storeVars>>
    /\ UNCHANGED rendererVars

InitRecollect ==
    /\ platform \in Platforms
    /\ machine \in RecollectMachines
    /\ ctx = NotCollected
    /\ snapshots = <<>>
    /\ StoreUntouched
    /\ agentProbe = NoProbe
    /\ RendererNotStarted

NextRecollect == GetDeviceContext \/ MachineChanges

\* Collections with changes of the machine between them.
SpecRecollect == InitRecollect /\ [][NextRecollect]_vars

\* Objects with the given sets of member names, the values booleans.
ObjectsOver(nameSets) == UNION {[S -> BOOLEAN] : S \in nameSets}

\* What saveSettings() is called with: no member, one setting, two settings.
Partials ==
    ObjectsOver({{}} \cup {{k} : k \in SettingKeys} \cup {{"autoScreenshots", "showTips"}})

\* The settings file as the store can find it: never written, not
\* readable, empty, cut short, holding JSON that is no object, or holding an
\* object with some of the settings and perhaps a member of an older version.
StoredFiles ==
    {[kind |-> "absent"], [kind |-> "unreadable"]}
    \cup {[kind |-> "text", raw |-> t] :
            t \in {<<>>, <<"{", "\n", " ", " ", "showTips", ":">>, <<"null">>, <<"4", "2">>,
                   <<"{", "showTips", ":", "false", ",", "}">>,
                   <<"{", "showTips", ":", "false", ",", "showTips", ":", "true", "}">>,
                   stringify(DEFAULTS)}}
    \cup {[kind |-> "text", raw |-> stringify(o)] :
            o \in ObjectsOver({{}} \cup {{k} : k \in SettingKeys \cup {"legacy"}}
                              \cup {{"sendErrorReports", "ticketUpdates"}})}

InitStore ==
    /\ platform = "linux"
    /\ machine = BareMachine
    /\ ctx = NotCollected
    /\ snapshots = <<>>
    /\ agentProbe = NoProbe
    /\ settingsFile \in StoredFiles
    /\ settingsOut = [op |-> "none"]
    /\ RendererNotStarted

NextStore ==
    \/ LoadSettings
    \/ \E partial \in Partials : \E w \in WriteOutcomes : SaveSettings(partial, w)
    \/ \E key \in SettingKeys : \E value \in BOOLEAN : \E w \in WriteOutcomes :
          SetSetting(key, value, w)

\* The settings store on every stored file.
SpecStore == InitStore /\ [][NextStore]_vars

\* ------------------------------------------------------------------------
\* Claims about the device-context probes
\* ------------------------------------------------------------------------

Collected == ctx.status = "ok"

\* C1: on every platform and for every combination of probe outcomes,
\* collectDeviceContext() raises no exception and returns a record that has
\* every field of DeviceContext.
C1_CollectNeverThrows ==
    /\ ctx.status # "threw"
    /\ Collected => DOMAIN ctx.value = DeviceContextFields

\* C2: a probe failure is isolated to its own fact: what is reported for the
\* model and the manufacturer does not depend on how the BIOS serial-number
\* query went, and what is reported for the serial number does not depend on
\* how the product query went.
C2_ProbeFailuresIsolated ==
    Collected /\ platform = "win32" =>
        /\ \A b \in BiosOutputs :
              LET other == getHardwareInfo(platform, [machine EXCEPT !.wmicBios = b])
              IN /\ ctx.value.model = other.model
                 /\ ctx.value.manufacturer = other.manufacturer
        /\ \A p \in ProductOutputs :
              ctx.value.serialNumber =
                  getHardwareInfo(platform, [machine EXCEPT !.wmicProduct = p]).serialNumber

\* C3: a nullable field is null exactly when its probe found no value: no
\* nullable field is the empty string, and the manufacturer, the one field
\* with a default in the source, is non-null only if the line it is read
\* from was found.
C3_NullIffNotFound ==
    Collected =>
        /\ \A f \in NullableTextFields : ctx.value[f] # Some(<<>>)
        /\ platform = "darwin" /\ ~IsNull(ctx.value.manufacturer)
              => match(machine.profiler.out, ChipPattern).ok

Entries == Flatten(machine.interfaces)
Qualifies(e) == e.family = "IPv4" /\ ~e.internal
FirstQualifying(i) ==
    /\ i \in 1..Len(Entries)
    /\ Qualifies(Entries[i])
    /\ \A j \in 1..(i - 1) : ~Qualifies(Entries[j])
NoneQualifies == \A i \in 1..Len(Entries) : ~Qualifies(Entries[i])

\* C4 (as stated): ipAddress is a non-empty string, the address of the first
\* non-internal IPv4 entry in enumeration order, and it is "127.0.0.1"
\* exactly when there is no non-internal IPv4 entry.
C4_LoopbackExactlyWhenNone ==
    Collected =>
        /\ ctx.value.ipAddress # ""
        /\ \A i \in 1..Len(Entries) :
              FirstQualifying(i) => ctx.value.ipAddress = Entries[i].address
        /\ ctx.value.ipAddress = "127.0.0.1" <=> NoneQualifies

\* C4 (amended): ipAddress is a non-empty string, the address of the first
\* non-internal IPv4 entry in enumeration order, and it is "127.0.0.1"
\* whenever there is no non-internal IPv4 entry.
C4_FirstNonInternalIPv4 ==
    Collected =>
        /\ ctx.value.ipAddress # ""
        /\ \A i \in 1..Len(Entries) :
              FirstQualifying(i) => ctx.value.ipAddress = Entries[i].address
        /\ NoneQualifies => ctx.value.ipAddress = "127.0.0.1"

\* Two non-internal IPv4 entries with different addresses follow an entry
\* that does not qualify, and the first of the two was reported.
C4_Witness ==
    /\ Collected
    /\ \E i, j \in 1..Len(Entries) :
          /\ 1 < i /\ i < j
          /\ FirstQualifying(i)
          /\ Qualifies(Entries[j])
          /\ Entries[j].address # Entries[i].address
          /\ ctx.value.ipAddress = Entries[i].address

\* C5: getDiskInfo() returns both total and free non-null or both null,
\* whatever the disk utility did; never exactly one of the two.
C5_DiskPairNeverPartial ==
    Collected => (IsNull(ctx.value.diskTotal) <=> IsNull(ctx.value.diskFree))

\* df printed a number in the size column and no number in the available
\* column, and both fields were reported null.
C5_Witness ==
    /\ Collected
    /\ platform = "linux"
    /\ machine.df.ok
    /\ LET parts == splitWs(trim(machine.df.out))
       IN /\ Len(parts) >= 4
          /\ ~IsNaN(parseInt(parts[2]))
          /\ IsNaN(parseInt(parts[4]))
    /\ IsNull(ctx.value.diskTotal)
    /\ IsNull(ctx.value.diskFree)

\* ------------------------------------------------------------------------
\* Claims about ticket submission
\* ------------------------------------------------------------------------

ServerMessage(body) ==
    IF body.json /\ body.data.kind = "object" THEN body.data.message ELSE Null

\* C6: whenever the POST received an HTTP response, whatever its body, the
\* handler returns success=true with the server data if the status indicates
\* success, and otherwise success=false with the server's message if there
\* is one, else the generic submission-failed message.
C6_ResponseDecidesResult ==
    \A i \in 1..Len(calls) :
        calls[i].stage = "returned" /\ calls[i].outcome.kind = "response" =>
            LET o == calls[i].outcome
                r == calls[i].result
            IN IF ResponseOk(o.status)
               THEN /\ r.success
                    /\ o.body.json => r.data = Some(o.body.data)
               ELSE /\ ~r.success
                    /\ r.error = Some(OrElse(ServerMessage(o.body), "Submission failed"))

\* C7: when the POST got no HTTP response, the handler returns success=false
\* and the error shown to the user is the connection-error message.
C7_NoResponseShowsConnectionError ==
    [][\A i \in 1..Len(calls) :
          /\ calls[i].stage = "returned"
          /\ calls[i].outcome.kind = "rejected"
          /\ calls' = RemoveAt(calls, i)
          => /\ ~calls[i].result.success
             /\ toast' = showToast(Translations(locale).toastConnectionError)]_vars

Invoked == {i \in 1..Len(calls) : calls[i].stage = "invoked"}

\* C8: every submit click that passes validation causes exactly one POST, and
\* after a failure no POST is sent until the user clicks again: the POSTs
\* sent are as many as the submitTicket calls made, less those the handler
\* has not started on.
C8_OnePostPerSubmit == posts + Cardinality(Invoked) = submits

\* After a submission that got no response the user clicked again, and the
\* second submission was posted: two clicks, two POSTs.
C8_Witness ==
    /\ submits = 2
    /\ posts = 2
    /\ toast.message = "fetch failed"

\* C9: at most one submission is in flight: from the click that passes
\* validation until the request settles and the listener resumes, the submit
\* button is disabled and there is no second submitTicket call.
C9_SingleFlight ==
    /\ Len(calls) <= 1
    /\ calls # <<>> => disabled

\* A submission is waiting for the server's answer.
C9_Witness ==
    /\ Len(calls) = 1
    /\ calls[1].stage = "fetching"
    /\ disabled
    /\ clicks = 1

\* C10: a submit click with an empty or whitespace-only required field makes
\* no submitTicket call, leaves the submit button out of the loading state
\* and shows the fill-in-the-fields error.
C10_InvalidFormNotSubmitted ==
    [][clicks' = clicks + 1 /\ (\/ form.category = ""
                               \/ trim(form.summary) = <<>>
                               \/ trim(form.description) = <<>>)
       => /\ calls' = calls
          /\ submits' = submits
          /\ posts' = posts
          /\ ~disabled'
          /\ toast' = [shown |-> TRUE,
                        message |-> Translations(locale).toastFillFields]]_vars

\* The one click so far found a whitespace-only summary: nothing was
\* submitted and the error is shown.
C10_Witness ==
    /\ clicks = 1
    /\ submits = 0
    /\ form.summary = Blank
    /\ form.category # ""
    /\ ~disabled
    /\ toast = [shown |-> TRUE, message |-> Translations(locale).toastFillFields]

\* ------------------------------------------------------------------------
\* Claims about the outbound calls
\* ------------------------------------------------------------------------

\* C11: every outbound call is bounded by a timeout: although the server may
\* never respond, a submission in flight eventually settles and the submit
\* button leaves the loading state, and a connectivity check that has sent
\* its request eventually finishes.
C11_OutboundCallsSettle ==
    /\ disabled ~> ~disabled
    /\ (health.stage = "fetching") ~> (health.stage = "done")

\* C18: once the connectivity check has received a health response with a
\* status code below 500, the status indicator shows connected, with the
\* computer name if the device context was loaded and a dash if it was not.
C18_Below500IsReachable ==
    health.stage = "done" /\ health.outcome.kind = "response"
    /\ health.outcome.status < 500
    => /\ ~mainStatus.offline
       /\ mainStatus.device = IF IsNull(deviceContext) THEN <<"EMDASH">>
                              ELSE Val(deviceContext).computerName

\* The device context could not be loaded, the health URL answered 404, and
\* the indicator went from offline to connected.
C18_Witness ==
    /\ IsNull(deviceContext)
    /\ health = [stage |-> "done", outcome |-> [kind |-> "response", status |-> 404]]
    /\ mainStatus = [offline |-> FALSE, device |-> <<"EMDASH">>]

\* ------------------------------------------------------------------------
\* Claims about the remote-agent probes
\* ------------------------------------------------------------------------

Yielding == {i \in 1..Len(Locations(agentProbe.name, platform, machine)) :
               ~IsNull(Locations(agentProbe.name, platform, machine)[i])}

ProbeFunction ==
    CASE agentProbe.name = "ninja" -> readNinjaDeviceId(platform, machine)
      [] agentProbe.name = "tvId" -> readTeamViewerId(platform, machine)
      [] agentProbe.name = "tvVersion" -> readTeamViewerVersion(platform, machine)

\* C12: each remote-agent probe reads its candidate locations in their fixed
\* order; a location that yields no value is followed by the next one; the
\* value of the first location that yields one is the result and no location
\* after it is read; the result is null only when no location yields a value.
C12_FirstLocationWins ==
    LET locs == Locations(agentProbe.name, platform, machine)
        reads == agentProbe.reads
    IN /\ reads = [j \in 1..Len(reads) |-> j]
       /\ Len(reads) <= Len(locs)
       /\ \A j \in 1..(Len(reads) - 1) : reads[j] \notin Yielding
       /\ agentProbe.done =>
             /\ agentProbe.result = ProbeFunction
             /\ IF Yielding = {}
                THEN IsNull(agentProbe.result) /\ Len(reads) = Len(locs)
                ELSE /\ reads[Len(reads)] = MinOf(Yielding)
                     /\ agentProbe.result = locs[MinOf(Yielding)]

\* On a Mac the first TeamViewer preferences file has no numeric ClientID,
\* the second has one, and global.conf has another: the probe read the two
\* preferences files, returned the second one's id and left global.conf alone.
C12_Witness ==
    /\ platform = "darwin"
    /\ agentProbe.name = "tvId"
    /\ agentProbe.done
    /\ Yielding = {2, 3}
    /\ agentProbe.reads = <<1, 2>>
    /\ agentProbe.result = Some(<<"4", "2">>)

RegNinjaEncodings(v) ==
    {RegQueryOutput("DeviceId", "REG_DWORD", <<"0x">> \o ToHex(v, UpperHex)),
     RegQueryOutput("DeviceId", "REG_DWORD", <<"0x">> \o ToHex(v, LowerHex)),
     RegQueryOutput("DeviceId", "REG_SZ", NatToString(v))}

\* C13 (as stated): on Windows, registry output with DeviceId REG_DWORD 0xH
\* yields the value of H and output with DeviceId REG_SZ D yields D; any
\* other output, and a failed query, yields null.
C13_OnlyTheTwoEncodings ==
    Collected /\ platform = "win32" =>
        /\ \A v \in Ids :
              machine.regNinja \in RegNinjaEncodings(v) => ctx.value.ninjaDeviceId = Some(v)
        /\ (\A v \in Ids : machine.regNinja \notin RegNinjaEncodings(v))
              => IsNull(ctx.value.ninjaDeviceId)

\* C13 (amended): on Windows, registry output with DeviceId REG_DWORD 0xH
\* yields the value of H; output with DeviceId REG_SZ whose value begins
\* with decimal digits D yields D, whatever follows the digits; output in
\* neither form, and a failed query, yields null.
C13_HexThenLeadingDigits ==
    Collected /\ platform = "win32" =>
        /\ \A v \in Ids :
              machine.regNinja \in RegNinjaEncodings(v) => ctx.value.ninjaDeviceId = Some(v)
        /\ \A o \in DOMAIN DigitPrefixedOutputs :
              machine.regNinja = o => ctx.value.ninjaDeviceId = Some(DigitPrefixedOutputs[o])
        /\ machine.regNinja \in OtherDeviceIdOutputs => IsNull(ctx.value.ninjaDeviceId)

\* The registry holds DeviceId as REG_DWORD 0x1A2B and 6699 was reported.
C13_Witness ==
    /\ Collected
    /\ platform = "win32"
    /\ machine.regNinja =
          RegQueryOutput("DeviceId", "REG_DWORD", <<"0x", "1", "A", "2", "B">>)
    /\ ctx.value.ninjaDeviceId = Some(6699)

\* The digit strings of the TeamViewer id the machine holds.
RawTeamViewerIds ==
    {NatToString(v) : v \in {w \in Ids :
        /\ platform = "win32"
        /\ machine.regTvId[1] =
              RegQueryOutput("ClientID", "REG_DWORD", <<"0x">> \o ToHex(w, LowerHex))}}
    \cup {t \in IdTexts :
            /\ platform = "darwin"
            /\ \/ machine.defaultsTvId[2] = Ok(t \o <<"\n">>)
               \/ machine.tvGlobalConf =
                     Ok(<<"[int32]", " ", "ClientID", " ", "=", " ">> \o t \o <<"\n">>)}

Unspaced(s) == SelectSeq(s, LAMBDA c : c # " ")

\* C14: the formatted teamviewerId holds exactly the decimal digits of the
\* numeric id, in order, in groups of three counted from the right that
\* single spaces separate; only the leftmost group may be shorter.
C14_GroupsOfThreeFromTheRight ==
    Collected =>
        /\ RawTeamViewerIds = {} <=> IsNull(ctx.value.teamviewerId)
        /\ \A t \in RawTeamViewerIds :
              LET out == Val(ctx.value.teamviewerId)
              IN /\ Unspaced(out) = t
                 /\ out[1] # " "
                 /\ \A i \in 1..Len(out) :
                       out[i] = " " <=> (Len(out) - i + 1) % 4 = 0

\* The registry holds ClientID 0x499602d2, which is 1234567890, and the id
\* reported is "1 234 567 890".
C14_Witness ==
    /\ Collected
    /\ RawTeamViewerIds = {NatToString(1234567890)}
    /\ ctx.value.teamviewerId =
          Some(<<"1", " ", "2", "3", "4", " ", "5", "6", "7", " ", "8", "9", "0">>)

\* ------------------------------------------------------------------------
\* Claims about the platform fact probes
\* ------------------------------------------------------------------------

MacQualifies(e) == e.family = "IPv4" /\ ~e.internal /\ e.mac # ZeroMac
FirstMacQualifying(i) ==
    /\ i \in 1..Len(Entries)
    /\ MacQualifies(Entries[i])
    /\ \A j \in 1..(i - 1) : ~MacQualifies(Entries[j])
InternalOrZeroMac == \A i \in 1..Len(Entries) : Entries[i].internal \/ Entries[i].mac = ZeroMac

\* C15 (as stated): macAddress is null when every interface entry is
\* internal or reports the all-zero MAC; otherwise it is the MAC of the
\* first qualifying entry in enumeration order; it is never the all-zero MAC.
C15_NullOnlyWhenInternalOrZero ==
    Collected =>
        /\ InternalOrZeroMac => IsNull(ctx.value.macAddress)
        /\ ~InternalOrZeroMac =>
              \E i \in 1..Len(Entries) :
                  /\ FirstMacQualifying(i)
                  /\ ctx.value.macAddress = Some(toUpperCase(Entries[i].mac))
        /\ ctx.value.macAddress # Some(ZeroMac)

\* C15 (amended): macAddress is null when no interface entry is a
\* non-internal IPv4 entry with a MAC other than the all-zero one, which
\* includes the case that every entry is internal or all-zero; otherwise it
\* is the MAC, in upper case, of the first such entry in enumeration order;
\* it is never the all-zero MAC.
C15_FirstIPv4WithRealMac ==
    Collected =>
        /\ InternalOrZeroMac => IsNull(ctx.value.macAddress)
        /\ (\A i \in 1..Len(Entries) : ~MacQualifies(Entries[i]))
              => IsNull(ctx.value.macAddress)
        /\ \A i \in 1..Len(Entries) :
              FirstMacQualifying(i) =>
                  ctx.value.macAddress = Some(toUpperCase(Entries[i].mac))
        /\ ctx.value.macAddress # Some(ZeroMac)

\* A non-internal IPv4 entry with the all-zero MAC comes first and was
\* skipped: the MAC reported is that of a later entry.
C15_Witness ==
    /\ Collected
    /\ \E i, j \in 1..Len(Entries) :
          /\ i < j
          /\ Qualifies(Entries[i]) /\ Entries[i].mac = ZeroMac
          /\ FirstMacQualifying(j)
          /\ ctx.value.macAddress = Some(toUpperCase(Entries[j].mac))

Rendered(d, h, m) ==
    IF d > 0
    THEN NatToString(d) \o <<"d", " ">> \o NatToString(h) \o <<"h", " ">>
         \o NatToString(m) \o <<"m">>
    ELSE NatToString(h) \o <<"h", " ">> \o NatToString(m) \o <<"m">>

\* C16: an uptime of d days, h hours, m minutes and some seconds is
\* formatted "Dd Hh Mm", and "Hh Mm" without a day segment when d = 0;
\* 90000 seconds give "1d 1h 0m" and 3600 seconds give "1h 0m".
C16_UptimeFormat ==
    Collected =>
        /\ \A d \in 0..MaxDays, h \in 0..23, m \in 0..59, sec \in {0, 59} :
              machine.uptime = d * 86400 + h * 3600 + m * 60 + sec
                  => ctx.value.uptimeFormatted = Rendered(d, h, m)
        /\ machine.uptime = 90000 =>
              ctx.value.uptimeFormatted = <<"1", "d", " ", "1", "h", " ", "0", "m">>
        /\ machine.uptime = 3600 => ctx.value.uptimeFormatted = <<"1", "h", " ", "0", "m">>

\* After 23 hours, 59 minutes and 59 seconds the text has no day segment.
C16_Witness ==
    /\ Collected
    /\ machine.uptime = 86399
    /\ ctx.value.uptimeFormatted = <<"2", "3", "h", " ", "5", "9", "m">>

\* C19: when the shell-out for the OS version fails, osVersion is the raw
\* OS type followed by the release, on every platform that shells out.
C19_FallbackIsTypeAndRelease ==
    Collected /\ platform = "darwin" /\ ~machine.swVers.ok =>
        ctx.value.osVersion = machine.ostype \o <<" ">> \o machine.release

\* C20: the domain is null on every platform other than Windows; on Windows
\* it is null when the echo command fails or prints the unexpanded
\* %USERDOMAIN%, and the trimmed echoed value otherwise.
C20_DomainOrNull ==
    Collected =>
        /\ platform # "win32" => IsNull(ctx.value.domain)
        /\ ~machine.echoDomain.ok => IsNull(ctx.value.domain)
        /\ platform = "win32" =>
              \A v \in DomainValues, pad \in {<<>>, <<" ">>} :
                  machine.echoDomain = Ok(pad \o v \o pad \o Crlf) =>
                      ctx.value.domain = IF v = <<"%USERDOMAIN%">> THEN Null ELSE Some(v)

\* The echo printed the domain between blanks and the bare name was
\* reported.
C20_Witness ==
    /\ Collected
    /\ platform = "win32"
    /\ machine.echoDomain = Ok(<<" ", "C", "O", "R", "P", " ">> \o Crlf)
    /\ ctx.value.domain = Some(<<"C", "O", "R", "P">>)

\* ------------------------------------------------------------------------
\* Claims about the reference code
\* ------------------------------------------------------------------------

ReferenceCodeOf(id) ==
    <<"ATLAS-">> \o [k \in 1..(IF Len(id) < 8 THEN Len(id) ELSE 8) |-> UpperChar(id[k])]

\* C17: the reference code shown for a ticket is "ATLAS-" followed by the
\* first 8 characters of the server-assigned id in upper case, both on the
\* success screen, when the listener resumes with the created ticket, and
\* on every card of the ticket list.
C17_ReferenceCode ==
    [][/\ \A i \in 1..Len(calls) :
             /\ calls[i].stage = "returned"
             /\ calls' = RemoveAt(calls, i)
             /\ calls[i].result.success
             => successRef' =
                    <<"Reference: ">> \o ReferenceCodeOf(Val(Val(calls[i].result.data).ticket))
       /\ \A k \in 1..Len(ticketsList'.cards) :
             ticketsList'.cards[k].refCode = ReferenceCodeOf(ticketsList'.cards[k].id)]_vars

\* The success screen shows ATLAS-ABCDEF12 for the ticket abcdef12-34, and
\* the ticket list shows the same code on that ticket's card.
C17_Witness ==
    /\ successRef = <<"Reference: ", "ATLAS-", "A", "B", "C", "D", "E", "F", "1", "2">>
    /\ ticketsList.state = "list"
    /\ \E k \in 1..Len(ticketsList.cards) :
          /\ ticketsList.cards[k].id = TicketId
          /\ ticketsList.cards[k].refCode =
                <<"ATLAS-", "A", "B", "C", "D", "E", "F", "1", "2">>

\* ------------------------------------------------------------------------
\* Claims about the settings store
\* ------------------------------------------------------------------------

\* The members the settings file holds, none when it holds no JSON object.
Stored ==
    IF settingsFile.kind = "text" /\ JsonParse(settingsFile.raw) # Threw
       /\ JsonParse(settingsFile.raw).value.kind = "object"
    THEN JsonParse(settingsFile.raw).value.members
    ELSE <<>>

NoValidJson ==
    settingsFile.kind \in {"absent", "unreadable"} \/ JsonParse(settingsFile.raw) = Threw

\* C23: loadSettings() never throws and returns every key of WidgetSettings,
\* with the stored value of each key the file holds and the default of each
\* key it lacks; from a file that is absent, unreadable or no valid JSON it
\* returns exactly the defaults.
C23_LoadReturnsEveryKey ==
    settingsOut.op = "load" =>
        /\ settingsOut.result.status = "ok"
        /\ SettingKeys \subseteq DOMAIN settingsOut.result.value
        /\ \A k \in SettingKeys :
              settingsOut.result.value[k] =
                  IF k \in DOMAIN Stored THEN Stored[k] ELSE DEFAULTS[k]
        /\ NoValidJson => settingsOut.result.value = DEFAULTS

\* A load of a file that holds one setting with a value other than its
\* default, and lacks others.
C23_Witness ==
    /\ settingsOut.op = "load"
    /\ \E k \in DOMAIN Stored \cap SettingKeys : Stored[k] # DEFAULTS[k]
    /\ \E k \in SettingKeys : k \notin DOMAIN Stored
    /\ settingsOut.result.status = "ok"

\* What loadSettings() would return now.
Loaded == loadSettings(settingsFile).value

\* C24: a save merges into the stored settings: after it, loadSettings()
\* returns the saved value of each key the save included and, for every
\* other key, what it returned before the save.
C24_SaveMergesIntoStored ==
    [][settingsOut'.op \in {"save", "set"} =>
          \A k \in SettingKeys :
              Loaded'[k] = IF k \in DOMAIN settingsOut'.partial
                           THEN settingsOut'.partial[k]
                           ELSE Loaded[k]]_vars

\* C30: what saveSettings(partial) returned is what loadSettings() returns
\* right after it, also when the write failed or the file was unreadable
\* before the save.
C30_SaveReturnsWhatLoadReturns ==
    settingsOut.op = "save" => settingsOut.result = loadSettings(settingsFile)

\* ------------------------------------------------------------------------
\* Claims about repeated collection
\* ------------------------------------------------------------------------

\* C21: collection has no cache: every get-device-context call hands out
\* what the probes find on the machine as it is at that call, and leaves
\* every context handed out earlier as it was.
C21_EveryCallProbesAnew ==
    [][/\ \A i \in 1..Len(snapshots) :
              i <= Len(snapshots') /\ snapshots'[i] = snapshots[i]
       /\ Len(snapshots') > Len(snapshots) =>
              /\ ctx' = collectDeviceContext(platform, machine)
              /\ snapshots'[Len(snapshots')].value = ctx']_vars

\* Two collections with a change of the machine between them, each with
\* the computer name, the domain and the uptime of its own time.
C21_Witness ==
    /\ Len(snapshots) = 2
    /\ snapshots[1].machine # snapshots[2].machine
    /\ snapshots[1].value.status = "ok" /\ snapshots[2].value.status = "ok"
    /\ snapshots[1].value # snapshots[2].value
    /\ ctx = snapshots[2].value

\* The health check failed: no response, or a status of 500 or more.
HealthCheckFailed ==
    health.outcome.kind # "response" \/ health.outcome.status >= 500

\* C29: once checkApiConnection() has completed, the indicator shows
\* offline exactly when the health check failed and no device context was
\* loaded; with a device context loaded it shows connected whatever the
\* outcome of the health check.
C29_OfflineIffFailedAndNoContext ==
    health.stage = "done" =>
        /\ mainStatus.offline <=> (HealthCheckFailed /\ IsNull(deviceContext))
        /\ ~IsNull(deviceContext) => ~mainStatus.offline

\* A failed health check with the device context loaded.
C29_Witness ==
    /\ health.stage = "done"
    /\ HealthCheckFailed
    /\ ~IsNull(deviceContext)
    /\ ~mainStatus.offline
    /\ mainStatus.device = Val(deviceContext).computerName

\* ------------------------------------------------------------------------
\* Claims about the health URL
\* ------------------------------------------------------------------------

\* The text without a closing "/api" path segment, if it has one.
WithoutTrailingApi(url) ==
    IF EndsWith(url, <<"/", "a", "p", "i", "/">>) THEN SubSeq(url, 1, Len(url) - 5)
    ELSE IF EndsWith(url, <<"/", "a", "p", "i">>) THEN SubSeq(url, 1, Len(url) - 4)
    ELSE url

\* C25: whatever API base URL is configured, the URL checkApiConnection()
\* requests is the base URL without its trailing /api segment, followed by
\* /health.
C25_HealthUrlEndsInHealth ==
    health.stage = "fetching" =>
        health.url = WithoutTrailingApi(health.apiBaseUrl)
                         \o <<"/", "h", "e", "a", "l", "t", "h">>

\* ------------------------------------------------------------------------
\* Claims about the contact email
\* ------------------------------------------------------------------------

\* The device context was loaded with no domain and with a NinjaOne id.
LoadedWithIdAndNoDomain ==
    /\ ~IsNull(deviceContext)
    /\ IsNull(Val(deviceContext).domain)
    /\ ~IsNull(Val(deviceContext).ninjaDeviceId)

\* The lookup answered with success and an email that is not empty.
LookupGaveEmail(lookup) ==
    /\ lookup.stage = "done"
    /\ lookup.result.kind = "result"
    /\ lookup.result.success
    /\ lookup.result.email \notin {Null, Some(<<>>)}

\* C22: init() makes the resolve-email lookup exactly when the device
\* context was loaded with no domain and with a ninjaDeviceId.  An answer
\* with success and an email makes that email the contact email of every
\* ticket submitted from then on; any other answer, and a rejection, leaves
\* the contact email as it was and shows no error.
C22_LookupBackfillsEmail ==
    /\ [](emailLookup.stage # "none" <=> LoadedWithIdAndNoDomain)
    /\ [][/\ emailLookup.stage = "pending" /\ emailLookup'.stage = "done" =>
               IF LookupGaveEmail(emailLookup')
               THEN userEmail' = Val(emailLookup'.result.email)
               ELSE userEmail' = userEmail /\ toast' = toast /\ view' = view
          /\ LookupGaveEmail(emailLookup) /\ Len(calls') > Len(calls) =>
               calls'[Len(calls')].ticket.email = Val(emailLookup.result.email)]_vars

\* A ticket submitted after the lookup gave an email, carrying that email.
C22_Witness ==
    /\ LookupGaveEmail(emailLookup)
    /\ calls # <<>>
    /\ calls[1].ticket.email = ResolvedEmail
    /\ userEmail = ResolvedEmail

\* C27: every ticket handed to submitTicket has a contact email that
\* contains "@".
C27_TicketEmailHasAtSign ==
    \A i \in 1..Len(calls) : HasAtSign(calls[i].ticket.email)

\* C28: once every getTickets call of the badge has settled, the badge
\* shows the answer of the call issued last: the total when it is above
\* zero, nothing when it is zero.
C28_BadgeShowsLatestRequest ==
    ticketCalls = 0 /\ badgeLatest.stage = "settled" /\ ~IsNull(badgeLatest.total) =>
        /\ badge.shown <=> Val(badgeLatest.total) > 0
        /\ badge.shown => badge.text = NatToString(Val(badgeLatest.total))

\* ------------------------------------------------------------------------
\* Claims about the end of a submission
\* ------------------------------------------------------------------------

\* C26: a submission whose request has settled, with success, with a
\* rejection by the server or with an error thrown in the listener, leaves
\* the loading state: the submit button is enabled again.
C26_SettledSubmissionReenables ==
    (\E i \in 1..Len(calls) : calls[i].stage = "returned") ~> ~disabled

\* The button enabled again after a submission that ended with an error
\* thrown in the listener: the answer had no ticket to read the id from.
C26_Witness ==
    /\ submits > 0
    /\ calls = <<>>
    /\ ~disabled
    /\ toast = showToast(Translations(locale).toastConnectionError)

=============================================================================




